---- MODULE Spec2Model ----
(***************************************************************************)
(* The weaverbird session state machine (sessionState.ts): the eight       *)
(* SessionState variants, their interact operations and the bounded        *)
(* polling engine CodeGenBase.generateCode.                                *)
(*                                                                         *)
(* JavaScript runs one task at a time: a step of the model is the code     *)
(* that runs from the resumption of one await to the next await (or to the *)
(* return/throw of interact).  pc names the await the call is suspended    *)
(* at.  Cancellation (tokenSource.cancel()) comes from the UI and can only *)
(* be interleaved at those suspension points.                              *)
(***************************************************************************)
EXTENDS Integers, Sequences, FiniteSets, TLC

(***************************************************************************)
(* Bounds of the model                                                     *)
(***************************************************************************)
MaxCalls == 3        \* interact calls the Session makes in one behaviour
MaxFiles == 2        \* files in one exported result archive / mock-data directory
MaxMsgLen == 2       \* chunks in a user message
MaxPlanLen == 2      \* chunks in a plan text returned by generatePlan
MaxJobPolls == 2     \* in-progress answers of one remote job started by the Session

(***************************************************************************)
(* Program constants                                                       *)
(***************************************************************************)
pollCount == 180
requestDelay == 10000

(***************************************************************************)
(* Values                                                                  *)
(***************************************************************************)
Undefined == "undefined"

\* upload ids the remote service hands out, and the ids randomUUID() yields
ServerUploadIds == {"u1", "u2"}
UuidPool == <<"m1", "m2", "m3", "m4", "m5", "m6">>
CodeGenerationIds == {"job1", "job2"}

InProgressStatuses == {"InProgress", "predict-ready"}
FailedStatuses == {"Failed", "predict-failed", "debate-failed"}
KnownStatuses == {"Complete"} \cup InProgressStatuses \cup FailedStatuses
Statuses == KnownStatuses \cup {"weird-status", "Cancelled"}

\* a user message: absent, or a string given as a sequence of chunks; the
\* chunk "MOCK CODE" is an occurrence of the sentinel substring
MsgChunks == {"fix it", "MOCK CODE"}
RECURSIVE SeqsUpTo(_, _)
SeqsUpTo(S, n) ==
    IF n = 0 THEN {<<>>}
    ELSE LET shorter == SeqsUpTo(S, n - 1)
         IN  shorter \cup {Append(s, x) : s \in {t \in shorter : Len(t) = n - 1}, x \in S}
NoMsg == [defined |-> FALSE, text |-> <<>>]
Msgs == {NoMsg} \cup {[defined |-> TRUE, text |-> t] : t \in SeqsUpTo(MsgChunks, MaxMsgLen)}

\* exported files: a path is a sequence of segments, a content a sequence of
\* code points
GeneratedFiles ==
    { [filePath |-> <<"a.ts">>, fileContent |-> <<120>>],
      [filePath |-> <<"a.ts">>, fileContent |-> <<233>>],
      [filePath |-> <<"..", "u2", "a.ts">>, fileContent |-> <<121>>] }
Archives == SeqsUpTo(GeneratedFiles, MaxFiles)

(***************************************************************************)
(* Pure helpers                                                            *)
(***************************************************************************)
\* `!x` of JavaScript for an optional string: undefined and '' are falsy
Falsy(m) == ~m.defined \/ m.text = <<>>

\* msg.indexOf('MOCK CODE') !== -1
ContainsMockCodeAtStart(m) == m.text # <<>> /\ m.text[1] = "MOCK CODE"
ContainsMockCode(m) == \E i \in 1..Len(m.text) : m.text[i] = "MOCK CODE"

\* path.normalize on a relative path given as segments: '.' and '' are
\* dropped, '..' removes the segment before it when there is one to remove
RECURSIVE Normalize(_, _)
Normalize(done, rest) ==
    IF rest = <<>> THEN done
    ELSE LET s == Head(rest)
         IN  IF s = "." \/ s = ""
             THEN Normalize(done, Tail(rest))
             ELSE IF s = ".." /\ done # <<>> /\ done[Len(done)] # ".."
             THEN Normalize(SubSeq(done, 1, Len(done) - 1), Tail(rest))
             ELSE Normalize(Append(done, s), Tail(rest))

\* path.join(uploadId, filePath)
PathJoin(uploadId, filePath) == Normalize(<<>>, <<uploadId>> \o filePath)

\* new TextEncoder().encode(fileContent): UTF-8 of code points below 0x800
RECURSIVE Utf8Encode(_)
Utf8Encode(cs) ==
    IF cs = <<>> THEN <<>>
    ELSE LET c == Head(cs)
         IN  (IF c < 128 THEN <<c>>
              ELSE <<192 + (c \div 64), 128 + (c % 64)>>) \o Utf8Encode(Tail(cs))

\* the VirtualFileSystem: uri path -> bytes; registerProvider overwrites
EmptyFs == [p \in {} |-> <<>>]
RegisterProviderDropsOthers(fs, uri, bytes) == (uri :> bytes)
RegisterProvider(fs, uri, bytes) == (uri :> bytes) @@ fs

\* createFilePaths: registers every file of newFileContents in list order and
\* returns the list of their filePaths
RECURSIVE RegisterAllNoUploadId(_, _, _)
RegisterAllNoUploadId(fs, newFileContents, uploadId) ==
    IF newFileContents = <<>> THEN fs
    ELSE LET f == Head(newFileContents)
         IN  RegisterAllNoUploadId(
                 RegisterProvider(fs, Normalize(<<>>, f.filePath),
                                  Utf8Encode(f.fileContent)),
                 Tail(newFileContents), uploadId)
RECURSIVE RegisterAll(_, _, _)
RegisterAll(fs, newFileContents, uploadId) ==
    IF newFileContents = <<>> THEN fs
    ELSE LET f == Head(newFileContents)
         IN  RegisterAll(
                 RegisterProvider(fs, PathJoin(uploadId, f.filePath),
                                  Utf8Encode(f.fileContent)),
                 Tail(newFileContents), uploadId)
FilePathsOf(newFileContents) ==
    [i \in 1..Len(newFileContents) |-> newFileContents[i].filePath]

(***************************************************************************)
(* Errors                                                                  *)
(***************************************************************************)
\* toolkit: e instanceof ToolkitError
Err(name, toolkit, detail) == [name |-> name, toolkit |-> toolkit, detail |-> detail]
NoError == Err("none", FALSE, "")
IllegalTransition == Err("IllegalTransition", TRUE, "")
UserMessageNotFoundError == Err("UserMessageNotFound", TRUE, "")
CodeGenerationFailed == Err("CodeGenerationFailed", TRUE, "")
UnknownStatus(status) == Err("UnknownStatus", TRUE, status)
TimeoutError == Err("Timeout", TRUE, "")
\* what a collaborator (remote client, upload, file system) can throw
RemoteErrors == {Err("RemoteFailure", FALSE, ""), Err("RemoteToolkitError", TRUE, "")}
\* e instanceof ToolkitError ? e : ToolkitError.chain(e, 'Server side error')
Wrap(e) == IF e.toolkit THEN e ELSE Err("ServerSideError", TRUE, e.name)

(***************************************************************************)
(* State objects                                                           *)
(***************************************************************************)
\* SessionStateConfig; PrepareRefinementState is given one without uploadId
Config(conversationId, uploadId, workspaceRoot) ==
    [conversationId |-> conversationId, uploadId |-> uploadId,
     workspaceRoot |-> workspaceRoot]
NoConfig == Config(Undefined, Undefined, Undefined)
ConversationId == "conv"
WorkspaceRoot == "ws"
TabID == "tab"

\* every constructor makes a new CancellationTokenSource: not yet signaled
Obj(kind, phase, config, approach, conversationId, uploadId, filePaths) ==
    [kind |-> kind, phase |-> phase, config |-> config, approach |-> approach,
     tabID |-> TabID, conversationId |-> conversationId, uploadId |-> uploadId,
     filePaths |-> filePaths, isCancellationRequested |-> FALSE]
NoObj == Obj("none", Undefined, NoConfig, <<>>, Undefined, Undefined, <<>>)

ConversationNotStartedState(approach) ==
    Obj("ConversationNotStarted", "Init", NoConfig, <<>>, Undefined, Undefined, <<>>)
PrepareRefinementState(config, approach) ==
    Obj("PrepareRefinement", "Approach", config, approach, Undefined, Undefined, <<>>)
RefinementState(config, approach) ==
    Obj("Refinement", "Approach", config, approach, config.conversationId,
        config.uploadId, <<>>)
RefinementIterationStateEmptyApproach(config, approach) ==
    Obj("RefinementIteration", "Approach", config, <<>>, config.conversationId,
        config.uploadId, <<>>)
RefinementIterationState(config, approach) ==
    Obj("RefinementIteration", "Approach", config, approach, config.conversationId,
        config.uploadId, <<>>)
CodeGenState(config, approach) ==
    Obj("CodeGen", "Codegen", config, approach, config.conversationId,
        config.uploadId, <<>>)
MockCodeGenStateWithPhase(config, approach, uuid) ==
    Obj("MockCodeGen", "Codegen", config, approach, config.conversationId, uuid, <<>>)
MockCodeGenStateOnConfigUploadId(config, approach, uuid) ==
    Obj("MockCodeGen", Undefined, config, approach, config.conversationId,
        config.uploadId, <<>>)
MockCodeGenState(config, approach, uuid) ==
    Obj("MockCodeGen", Undefined, config, approach, config.conversationId, uuid, <<>>)
PrepareIterationStateInApproachPhase(config, approach, filePaths) ==
    Obj("PrepareIteration", "Approach", config, approach, config.conversationId,
        config.uploadId, filePaths)
PrepareIterationStateNoFiles(config, approach, filePaths) ==
    Obj("PrepareIteration", "Codegen", config, approach, config.conversationId,
        config.uploadId, <<>>)
PrepareIterationState(config, approach, filePaths) ==
    Obj("PrepareIteration", "Codegen", config, approach, config.conversationId,
        config.uploadId, filePaths)
CodeGenIterationState(config, approach, filePaths) ==
    Obj("CodeGenIteration", "Codegen", config, approach, config.conversationId,
        config.uploadId, filePaths)

(***************************************************************************)
(* State                                                                   *)
(***************************************************************************)
VARIABLES
    held,              \* the state object the Session holds (interact is called on it)
    callee,            \* the state object a Prepare* state delegates to, or NoObj
    pc,                \* the await the running call is suspended at
    action,            \* the SessionStateAction of the running call (its msg)
    result,            \* what the last interact call returned or threw
    gcResult,          \* what the last generateCode call returned or threw
    vfs,               \* the VirtualFileSystem of action.fs
    vfsAtCall,         \* vfs when the running call started
    pollingIteration,  \* loop variable of generateCode
    calls,             \* number of calls of each collaborator made by the running call
    nInProgress,       \* in-progress statuses the service returned to the running call
    waited,            \* milliseconds slept by the running call
    lastStatus,        \* status returned by the last status query
    cancelAt,          \* where the running object's token was signaled
    codeGenerationId,  \* job id returned by startCodeGeneration
    lastCall,          \* the last call of the remote client and its arguments
    uploadId,          \* local uploadId of a Prepare* interact
    answers,           \* messages sent through action.messenger by the running call
    ncalls,            \* interact calls made so far
    uuidCount,         \* randomUUID() values used so far
    jobPolls,          \* polls the remote job may still answer as in progress
    exported,          \* the files exportResultArchive returned to the running call
    planReturned,      \* the plan text generatePlan returned to the running call
    errorCall,         \* the arguments of the Messenger.sendErrorMessage call
    dispatched,        \* messages the Messenger has handed to its dispatcher
    heldAtCall         \* the held state object as it was when the running call started

vars == <<held, callee, pc, action, result, gcResult, vfs, vfsAtCall,
          pollingIteration, calls, nInProgress, waited, lastStatus, cancelAt,
          codeGenerationId, lastCall, uploadId, answers, ncalls, uuidCount,
          jobPolls, exported, planReturned, errorCall, dispatched, heldAtCall>>

NoCalls ==
    [prepareRepoData |-> 0, createUploadUrl |-> 0, uploadCode |-> 0,
     generatePlan |-> 0, startCodeGeneration |-> 0, getCodeGeneration |-> 0,
     exportResultArchive |-> 0, sleep |-> 0, stat |-> 0, collectFiles |-> 0,
     loggerError |-> 0]
Called(name) == [calls EXCEPT ![name] = @ + 1]

\* a call of the remote client with its arguments
RemoteCall(name, conversationId, upload, msg, job) ==
    [name |-> name, conversationId |-> conversationId, uploadId |-> upload,
     msg |-> msg, job |-> job]
NoCall == RemoteCall("none", Undefined, Undefined, NoMsg, Undefined)

NotExported == [defined |-> FALSE, files |-> <<>>]

\* Messenger.sendErrorMessage has not been called
NoErrorCall == [errorMessage |-> Undefined, tabID |-> Undefined, retries |-> -1,
                phase |-> Undefined]

\* no plan text has come back from generatePlan
NotPlanned == [returned |-> FALSE, plan |-> [defined |-> FALSE, text |-> <<>>]]

NoCancel == [query |-> -1, pc |-> "never"]

\* interact's outcome: {nextState, interaction} or an error
NoResult == [type |-> "none", error |-> NoError, nextState |-> NoObj,
             content |-> Undefined]
Returned(nextState, content) ==
    [type |-> "ok", error |-> NoError, nextState |-> nextState, content |-> content]
Thrown(e) == [type |-> "error", error |-> e, nextState |-> NoObj, content |-> Undefined]

\* generateCode's outcome: {newFiles, newFilePaths} or an error
NoGc == [type |-> "none", error |-> NoError, newFiles |-> <<>>, newFilePaths |-> <<>>]
GcReturned(newFiles, newFilePaths) ==
    [type |-> "ok", error |-> NoError, newFiles |-> newFiles,
     newFilePaths |-> newFilePaths]
GcThrown(e) == [type |-> "error", error |-> e, newFiles |-> <<>>, newFilePaths |-> <<>>]

\* the object whose code is running: the delegate when there is one
Runner == IF callee.kind # "none" THEN callee ELSE held

(***************************************************************************)
(* CodeGenBase.generateCode: the bounded polling loop                      *)
(***************************************************************************)
\* the loop condition: pollingIteration < this.pollCount && !isCancellationRequested
LoopConditionIgnoresToken(iteration, cancelled) == iteration < pollCount
LoopConditionOneMore(iteration, cancelled) == iteration <= pollCount /\ ~cancelled
LoopCondition(iteration, cancelled) == iteration < pollCount /\ ~cancelled

\* after the loop: timeout unless the token is signaled, then the empty result
AfterLoopAlwaysTimeout(cancelled) == GcThrown(TimeoutError)
AfterLoop(cancelled) ==
    IF ~cancelled THEN GcThrown(TimeoutError) ELSE GcReturned(<<>>, <<>>)

\* the switch on codegenResult.codeGenerationStatus.status
StatusCaseFailedVariantsRetry(status) ==
    CASE status = "Complete" -> "export"
      [] status \in InProgressStatuses \cup {"predict-failed", "debate-failed"} -> "sleep"
      [] status = "Failed" -> "failed"
      [] OTHER -> "unknown"
StatusCaseUnknownRetries(status) ==
    CASE status = "Complete" -> "export"
      [] status \in InProgressStatuses -> "sleep"
      [] status \in FailedStatuses -> "failed"
      [] OTHER -> "sleep"
StatusCaseReadyExports(status) ==
    CASE status \in {"Complete", "predict-ready"} -> "export"
      [] status = "InProgress" -> "sleep"
      [] status \in FailedStatuses -> "failed"
      [] OTHER -> "unknown"
StatusCase(status) ==
    CASE status = "Complete" -> "export"
      [] status \in {"predict-ready", "InProgress"} -> "sleep"
      [] status \in {"predict-failed", "debate-failed", "Failed"} -> "failed"
      [] OTHER -> "unknown"

\* the head of the loop, run without suspension: either the next status query
\* is sent, or the loop ends and generateCode returns or throws
LoopHead(iteration) ==
    /\ pollingIteration' = iteration
    /\ IF LoopCondition(iteration, Runner.isCancellationRequested)
       THEN /\ calls' = Called("getCodeGeneration")
            /\ lastCall' = RemoteCall("getCodeGeneration", Runner.conversationId,
                                       Undefined, NoMsg, codeGenerationId)
            /\ pc' = "getCodeGeneration"
            /\ gcResult' = gcResult
       ELSE /\ calls' = calls
            /\ lastCall' = lastCall
            /\ pc' = "generateCodeDone"
            /\ gcResult' = AfterLoop(Runner.isCancellationRequested)

\* generateCode is entered: the first evaluation of the loop condition
GenerateCode ==
    /\ pc = "generateCode"
    /\ LoopHead(0)
    /\ UNCHANGED <<held, callee, action, result, vfs, vfsAtCall, nInProgress, waited,
                   lastStatus, cancelAt, codeGenerationId, uploadId, answers, ncalls,
                   uuidCount,
                   jobPolls, exported, planReturned, errorCall, dispatched, heldAtCall>>

\* getCodeGeneration returns a status
GetCodeGenerationReturns ==
    /\ pc = "getCodeGeneration"
    /\ \E status \in Statuses :
        /\ lastStatus' = status
        /\ status \in InProgressStatuses => jobPolls > 0
        /\ jobPolls' = IF status \in InProgressStatuses THEN jobPolls - 1 ELSE jobPolls
        /\ nInProgress' = IF status \in InProgressStatuses THEN nInProgress + 1
                          ELSE nInProgress
        /\ CASE StatusCase(status) = "export" ->
                  /\ calls' = Called("exportResultArchive")
                  /\ lastCall' = RemoteCall("exportResultArchive", Runner.conversationId,
                                             Undefined, NoMsg, Undefined)
                  /\ pc' = "exportResultArchive"
                  /\ gcResult' = gcResult
             [] StatusCase(status) = "sleep" ->
                  /\ calls' = Called("sleep")
                  /\ lastCall' = lastCall
                  /\ pc' = "sleep"
                  /\ gcResult' = gcResult
             [] StatusCase(status) = "failed" ->
                  /\ calls' = calls
                  /\ lastCall' = lastCall
                  /\ pc' = "generateCodeDone"
                  /\ gcResult' = GcThrown(CodeGenerationFailed)
             [] OTHER ->
                  /\ calls' = calls
                  /\ lastCall' = lastCall
                  /\ pc' = "generateCodeDone"
                  /\ gcResult' = GcThrown(UnknownStatus(status))
    /\ UNCHANGED <<held, callee, action, result, vfs, vfsAtCall, pollingIteration,
                   waited, cancelAt, codeGenerationId, uploadId, answers, ncalls,
                   uuidCount,
                   exported, planReturned, errorCall, dispatched, heldAtCall>>

\* getCodeGeneration throws
GetCodeGenerationThrows ==
    /\ pc = "getCodeGeneration"
    /\ \E e \in RemoteErrors : gcResult' = GcThrown(e)
    /\ pc' = "generateCodeDone"
    /\ UNCHANGED <<held, callee, action, result, vfs, vfsAtCall, pollingIteration,
                   calls, nInProgress, waited, lastStatus, cancelAt, codeGenerationId,
                   lastCall, uploadId, answers, ncalls, uuidCount,
                   jobPolls, exported, planReturned, errorCall, dispatched, heldAtCall>>

\* exportResultArchive returns the files; createFilePaths registers them
ExportResultArchiveReturns ==
    /\ pc = "exportResultArchive"
    /\ \E newFiles \in Archives :
        /\ vfs' = RegisterAll(vfs, newFiles, Runner.uploadId)
        /\ gcResult' = GcReturned(newFiles, FilePathsOf(newFiles))
        /\ exported' = [defined |-> TRUE, files |-> newFiles]
    /\ pc' = "generateCodeDone"
    /\ UNCHANGED <<held, callee, action, result, vfsAtCall, pollingIteration, calls,
                   nInProgress, waited, lastStatus, cancelAt, codeGenerationId,
                   lastCall, uploadId, answers, ncalls, uuidCount,
                   jobPolls, planReturned, errorCall, dispatched, heldAtCall>>

\* exportResultArchive throws
ExportResultArchiveThrows ==
    /\ pc = "exportResultArchive"
    /\ \E e \in RemoteErrors : gcResult' = GcThrown(e)
    /\ pc' = "generateCodeDone"
    /\ UNCHANGED <<held, callee, action, result, vfs, vfsAtCall, pollingIteration,
                   calls, nInProgress, waited, lastStatus, cancelAt, codeGenerationId,
                   lastCall, uploadId, answers, ncalls, uuidCount,
                   jobPolls, exported, planReturned, errorCall, dispatched, heldAtCall>>

\* the timer of requestDelay ms fires: ++pollingIteration and the loop head
SleepReturns ==
    /\ pc = "sleep"
    /\ waited' = waited + requestDelay
    /\ LoopHead(pollingIteration + 1)
    /\ UNCHANGED <<held, callee, action, result, vfs, vfsAtCall, nInProgress,
                   lastStatus, cancelAt, codeGenerationId, uploadId, answers, ncalls,
                   uuidCount,
                   jobPolls, exported, planReturned, errorCall, dispatched, heldAtCall>>

\* tokenSource.cancel() on the state object the Session holds: possible
\* whenever no code is running, that is at any suspension point (the return of
\* generateCode into interact is none)
CancelSignalsEveryToken ==
    /\ pc # "generateCodeDone"
    /\ ~held.isCancellationRequested
    /\ held' = [held EXCEPT !.isCancellationRequested = TRUE]
    /\ callee' = IF callee.kind = "none"
                 THEN callee
                 ELSE [callee EXCEPT !.isCancellationRequested = TRUE]
    /\ result' = IF result.type = "ok"
                 THEN [result EXCEPT !.nextState.isCancellationRequested = TRUE]
                 ELSE result
    /\ cancelAt' = IF callee.kind = "none"
                   THEN [query |-> calls.getCodeGeneration, pc |-> pc]
                   ELSE cancelAt
    /\ UNCHANGED <<pc, action, gcResult, vfs, vfsAtCall,
                   pollingIteration, calls, nInProgress, waited, lastStatus,
                   codeGenerationId, lastCall, uploadId, answers, ncalls, uuidCount,
                   jobPolls, exported, planReturned, errorCall, dispatched, heldAtCall>>
Cancel ==
    /\ pc # "generateCodeDone"
    /\ ~held.isCancellationRequested
    /\ held' = [held EXCEPT !.isCancellationRequested = TRUE]
    /\ cancelAt' = IF callee.kind = "none"
                   THEN [query |-> calls.getCodeGeneration, pc |-> pc]
                   ELSE cancelAt
    /\ UNCHANGED <<callee, pc, action, result, gcResult, vfs, vfsAtCall,
                   pollingIteration, calls, nInProgress, waited, lastStatus,
                   codeGenerationId, lastCall, uploadId, answers, ncalls, uuidCount,
                   jobPolls, exported, planReturned, errorCall, dispatched, heldAtCall>>

(***************************************************************************)
(* SpecGen: one call of generateCode on a CodeGenState or                  *)
(* CodeGenIterationState, for every job behaviour and cancellation timing  *)
(***************************************************************************)
\* a file system that already holds files of an earlier round
EarlierFs == (<<"u1", "a.ts">> :> <<7>>) @@ (<<"u2", "a.ts">> :> <<8>>)

InitGen ==
    /\ \E u \in ServerUploadIds, c \in BOOLEAN, k \in {"CodeGen", "CodeGenIteration"} :
         LET cfg == Config(ConversationId, u, WorkspaceRoot)
             o == IF k = "CodeGen" THEN CodeGenState(cfg, <<"plan">>)
                  ELSE CodeGenIterationState(cfg, <<>>, <<>>)
         IN  /\ held = [o EXCEPT !.isCancellationRequested = c]
             /\ cancelAt = IF c THEN [query |-> 0, pc |-> "generateCode"] ELSE NoCancel
    /\ callee = NoObj
    /\ pc = "generateCode"
    /\ action = [msg |-> NoMsg]
    /\ result = NoResult
    /\ gcResult = NoGc
    /\ vfs = EarlierFs
    /\ vfsAtCall = vfs
    /\ pollingIteration = 0
    /\ calls = [NoCalls EXCEPT !.startCodeGeneration = 1]
    /\ nInProgress = 0
    /\ waited = 0
    /\ lastStatus = "none"
    /\ codeGenerationId \in CodeGenerationIds
    /\ lastCall = RemoteCall("startCodeGeneration", ConversationId, held.uploadId,
                              action.msg, Undefined)
    /\ uploadId = Undefined
    /\ answers = <<>>
    /\ ncalls = 1
    /\ uuidCount = 0
    /\ jobPolls = pollCount + 1
    /\ exported = NotExported
    /\ planReturned = NotPlanned
    /\ errorCall = NoErrorCall
    /\ dispatched = <<>>
    /\ heldAtCall = held

NextGen ==
    \/ GenerateCode
    \/ GetCodeGenerationReturns
    \/ GetCodeGenerationThrows
    \/ ExportResultArchiveReturns
    \/ ExportResultArchiveThrows
    \/ SleepReturns
    \/ Cancel

SpecGen == InitGen /\ [][NextGen]_vars

\* the collaborators answer and the timers fire
FairGen ==
    /\ WF_vars(GenerateCode)
    /\ WF_vars(GetCodeGenerationReturns \/ GetCodeGenerationThrows)
    /\ WF_vars(ExportResultArchiveReturns \/ ExportResultArchiveThrows)
    /\ WF_vars(SleepReturns)
SpecGenFair == SpecGen /\ FairGen

(***************************************************************************)
(* The interact operations                                                 *)
(***************************************************************************)
\* plan texts generatePlan can return: undefined, or a string given as chunks
PlanChunks == {"text", "<script>alert(1)</script>"}
NoPlan == [defined |-> FALSE, text |-> <<>>]
Plans == {NoPlan} \cup {[defined |-> TRUE, text |-> t] : t \in SeqsUpTo(PlanChunks, MaxPlanLen)}
FallbackApproach == <<"There has been a problem generating an approach. Please open a conversation in a new tab">>

\* sanitizeHtml(text, {}): a script element is dropped with its content, text stays
SanitizeHtmlKeepsMarkup(text) == text
RECURSIVE SanitizeHtml(_)
SanitizeHtml(text) ==
    IF text = <<>> THEN <<>>
    ELSE IF Head(text) = "<script>alert(1)</script>" THEN SanitizeHtml(Tail(text))
    ELSE <<Head(text)>> \o SanitizeHtml(Tail(text))

\* approach ?? fallback
OrFallback(plan) == IF plan.defined THEN plan.text ELSE FallbackApproach

\* files collectFiles finds under <workspaceRoot>/mock-data
MockFiles ==
    { [filePath |-> <<"mock-data", "m.ts">>, fileContent |-> <<109>>],
      [filePath |-> <<"mock-data", "mock-data", "n.ts">>, fileContent |-> <<110>>] }
MockDirectories == SeqsUpTo(MockFiles, MaxFiles)

\* filePath.replace('mock-data/', ''): the first occurrence is removed
RECURSIVE ReplaceMockData(_)
ReplaceMockData(filePath) ==
    IF Len(filePath) < 2 THEN filePath
    ELSE IF Head(filePath) = "mock-data" THEN Tail(filePath)
    ELSE <<Head(filePath)>> \o ReplaceMockData(Tail(filePath))

\* this.<field> = value on the running object
SetRunner(field, value) ==
    IF callee.kind # "none"
    THEN /\ callee' = [callee EXCEPT ![field] = value]
         /\ held' = held
    ELSE /\ held' = [held EXCEPT ![field] = value]
         /\ callee' = callee

\* how an error raised at an await leaves interact: RefinementState and
\* CodeGenState catch and wrap, the other states have no handler
Propagate(kind, e) == IF kind \in {"Refinement", "CodeGen"} THEN Wrap(e) ELSE e

\* the messages to call a state with.  CodeGenState, PrepareIterationState and
\* CodeGenIterationState pass action.msg on unread (lines 393-397): absent, empty
\* and one chunk are all the cases there are for them
CodegenMsgs == {m \in Msgs : Len(m.text) <= 1 /\ ~ContainsMockCode(m)}
MsgsFor(state) ==
    IF state.kind \in {"CodeGen", "PrepareIteration", "CodeGenIteration"}
    THEN CodegenMsgs ELSE Msgs

\* the Session calls interact(action) on the state it holds
Interact ==
    /\ pc = "idle"
    /\ ncalls < MaxCalls
    /\ \E m \in MsgsFor(held) : action' = [msg |-> m]
    /\ pc' = "interact"
    /\ callee' = NoObj
    /\ result' = NoResult
    /\ gcResult' = NoGc
    /\ vfsAtCall' = vfs
    /\ pollingIteration' = 0
    /\ calls' = NoCalls
    /\ nInProgress' = 0
    /\ waited' = 0
    /\ lastStatus' = "none"
    /\ cancelAt' = IF held.isCancellationRequested
                   THEN [query |-> 0, pc |-> "idle"] ELSE NoCancel
    /\ codeGenerationId' = Undefined
    /\ lastCall' = NoCall
    /\ uploadId' = Undefined
    /\ answers' = <<>>
    /\ ncalls' = ncalls + 1
    /\ planReturned' = NotPlanned
    /\ heldAtCall' = held
    /\ UNCHANGED <<held, vfs, uuidCount,
                   jobPolls, exported, errorCall, dispatched>>

\* ConversationNotStartedState.interact
ConversationNotStartedInteractReturns == Returned(NoObj, Undefined)
ConversationNotStartedInteractResult == Thrown(IllegalTransition)
ConversationNotStartedInteract ==
    /\ pc = "interact"
    /\ Runner.kind = "ConversationNotStarted"
    /\ result' = ConversationNotStartedInteractResult
    /\ pc' = "done"
    /\ UNCHANGED <<held, callee, action, gcResult, vfs, vfsAtCall, pollingIteration,
                   calls, nInProgress, waited, lastStatus, cancelAt, codeGenerationId,
                   lastCall, uploadId, answers, ncalls, uuidCount,
                   jobPolls, exported, planReturned, errorCall, dispatched, heldAtCall>>

\* PrepareRefinementState.interact and PrepareIterationState.interact start
\* alike: await prepareRepoData(workspaceRoot, conversationId)
PrepareInteract ==
    /\ pc = "interact"
    /\ Runner.kind \in {"PrepareRefinement", "PrepareIteration"}
    /\ calls' = Called("prepareRepoData")
    /\ pc' = "prepareRepoData"
    /\ UNCHANGED <<held, callee, action, result, gcResult, vfs, vfsAtCall,
                   pollingIteration, nInProgress, waited, lastStatus, cancelAt,
                   codeGenerationId, lastCall, uploadId, answers, ncalls, uuidCount,
                   jobPolls, exported, planReturned, errorCall, dispatched, heldAtCall>>

\* prepareRepoData returns: createUploadUrl(config.conversationId, checksum)
PrepareRepoDataReturns ==
    /\ pc = "prepareRepoData"
    /\ calls' = Called("createUploadUrl")
    /\ lastCall' = RemoteCall("createUploadUrl", held.config.conversationId, Undefined,
                              NoMsg, Undefined)
    /\ pc' = "createUploadUrl"
    /\ UNCHANGED <<held, callee, action, result, gcResult, vfs, vfsAtCall,
                   pollingIteration, nInProgress, waited, lastStatus, cancelAt,
                   codeGenerationId, uploadId, answers, ncalls, uuidCount,
                   jobPolls, exported, planReturned, errorCall, dispatched, heldAtCall>>

\* createUploadUrl returns {uploadUrl, uploadId, kmsKeyArn}; PrepareIterationState
\* sets this.uploadId; both then await uploadCode(uploadUrl, zipFileBuffer, kmsKeyArn)
CreateUploadUrlReturns ==
    /\ pc = "createUploadUrl"
    /\ \E u \in ServerUploadIds :
        /\ uploadId' = u
        /\ held' = IF held.kind = "PrepareIteration"
                   THEN [held EXCEPT !.uploadId = u] ELSE held
    /\ calls' = Called("uploadCode")
    /\ lastCall' = RemoteCall("uploadCode", Undefined, Undefined, NoMsg, Undefined)
    /\ pc' = "uploadCode"
    /\ UNCHANGED <<callee, action, result, gcResult, vfs, vfsAtCall, pollingIteration,
                   nInProgress, waited, lastStatus, cancelAt, codeGenerationId,
                   answers, ncalls, uuidCount,
                   jobPolls, exported, planReturned, errorCall, dispatched, heldAtCall>>

\* {...this.config, uploadId}: a copy of the config with the new uploadId
WithUploadIdDropped(config, newUploadId) == config
WithUploadId(config, newUploadId) == [config EXCEPT !.uploadId = newUploadId]

\* this.config after {...this.config, uploadId} was built from it: the spread
\* copies the fields into a new object and leaves its source as it was
SpreadSourceAssigned(config, newUploadId) == [config EXCEPT !.uploadId = newUploadId]
SpreadSource(config, newUploadId) == config

\* uploadCode returns: the next state is built on {...this.config, uploadId} and
\* its interact is called with the same action
UploadCodeReturns ==
    /\ pc = "uploadCode"
    /\ LET config == WithUploadId(held.config, uploadId)
       IN  callee' = IF held.kind = "PrepareRefinement"
                     THEN RefinementState(config, held.approach)
                     ELSE CodeGenIterationState(config, <<>>, held.filePaths)
    /\ held' = [held EXCEPT !.config = SpreadSource(held.config, uploadId)]
    /\ pc' = "interact"
    /\ UNCHANGED <<action, result, gcResult, vfs, vfsAtCall, pollingIteration,
                   calls, nInProgress, waited, lastStatus, cancelAt, codeGenerationId,
                   lastCall, uploadId, answers, ncalls, uuidCount,
                   jobPolls, exported, planReturned, errorCall, dispatched, heldAtCall>>

\* the guard `if (!action.msg) throw new UserMessageNotFoundError()`
MessageMissingOnlyUndefined(m) == ~m.defined
MessageMissing(m) == Falsy(m)

\* RefinementState.interact up to its await of generatePlan
RefinementInteract ==
    /\ pc = "interact"
    /\ Runner.kind = "Refinement"
    /\ IF MessageMissing(action.msg)
       THEN /\ result' = Thrown(Propagate("Refinement", UserMessageNotFoundError))
            /\ pc' = "done"
            /\ UNCHANGED <<calls, lastCall>>
       ELSE /\ calls' = Called("generatePlan")
            /\ lastCall' = RemoteCall("generatePlan", Runner.config.conversationId,
                                      Runner.config.uploadId, action.msg, Undefined)
            /\ pc' = "generatePlan"
            /\ result' = result
    /\ UNCHANGED <<held, callee, action, gcResult, vfs, vfsAtCall, pollingIteration,
                   nInProgress, waited, lastStatus, cancelAt, codeGenerationId,
                   uploadId, answers, ncalls, uuidCount,
                   jobPolls, exported, planReturned, errorCall, dispatched, heldAtCall>>

\* RefinementIterationState.interact up to its first await: the mock-mode
\* sentinel delegates to a new MockCodeGenState
RefinementIterationInteract ==
    /\ pc = "interact"
    /\ Runner.kind = "RefinementIteration"
    /\ IF ~Falsy(action.msg) /\ ContainsMockCode(action.msg)
       THEN /\ uuidCount < Len(UuidPool)
            /\ callee' = MockCodeGenState(Runner.config, Runner.approach,
                                          UuidPool[uuidCount + 1])
            /\ uuidCount' = uuidCount + 1
            /\ pc' = "interact"
            /\ UNCHANGED <<result, calls, lastCall>>
       ELSE IF MessageMissing(action.msg)
       THEN /\ result' = Thrown(Propagate("RefinementIteration", UserMessageNotFoundError))
            /\ pc' = "done"
            /\ UNCHANGED <<callee, uuidCount, calls, lastCall>>
       ELSE /\ calls' = Called("generatePlan")
            /\ lastCall' = RemoteCall("generatePlan", Runner.config.conversationId,
                                      Runner.config.uploadId, action.msg, Undefined)
            /\ pc' = "generatePlan"
            /\ UNCHANGED <<callee, uuidCount, result>>
    /\ UNCHANGED <<held, action, gcResult, vfs, vfsAtCall, pollingIteration,
                   nInProgress, waited, lastStatus, cancelAt, codeGenerationId,
                   uploadId, answers, ncalls, jobPolls, exported, planReturned, errorCall, dispatched, heldAtCall>>

\* {...this.config, conversationId: this.conversationId}
WithConversationIdOfUpload(config, conversationId) ==
    [config EXCEPT !.conversationId = config.uploadId]
WithConversationId(config, conversationId) ==
    [config EXCEPT !.conversationId = conversationId]

\* generatePlan returns: this.approach = sanitizeHtml(approach ?? fallback, {}) and
\* the next state is a new RefinementIterationState
GeneratePlanReturns ==
    /\ pc = "generatePlan"
    /\ \E plan \in Plans :
        LET approach == SanitizeHtml(OrFallback(plan))
        IN  /\ planReturned' = [returned |-> TRUE, plan |-> plan]
            /\ SetRunner("approach", approach)
            /\ result' = Returned(
                   RefinementIterationState(
                       IF Runner.kind = "Refinement"
                       THEN WithConversationId(Runner.config, Runner.conversationId)
                       ELSE Runner.config,
                       approach),
                   approach \o <<"\n">>)
    /\ pc' = "done"
    /\ UNCHANGED <<action, gcResult, vfs, vfsAtCall, pollingIteration, calls,
                   nInProgress, waited, lastStatus, cancelAt, codeGenerationId,
                   lastCall, uploadId, answers, ncalls, uuidCount,
                   jobPolls, exported, errorCall, dispatched, heldAtCall>>

\* the message argument of startCodeGeneration: CodeGenState passes none,
\* CodeGenIterationState passes action.msg
StartCodeGenerationMsgNever(kind, msg) == NoMsg
StartCodeGenerationMsg(kind, msg) == IF kind = "CodeGen" THEN NoMsg ELSE msg

\* CodeGenState.interact and CodeGenIterationState.interact up to their await of
\* startCodeGeneration
CodeGenInteract ==
    /\ pc = "interact"
    /\ Runner.kind \in {"CodeGen", "CodeGenIteration"}
    /\ answers' = Append(answers, "Uploading code ...")
    /\ calls' = Called("startCodeGeneration")
    /\ lastCall' = RemoteCall("startCodeGeneration", Runner.config.conversationId,
                              Runner.config.uploadId,
                              StartCodeGenerationMsg(Runner.kind, action.msg),
                              Undefined)
    /\ pc' = "startCodeGeneration"
    /\ UNCHANGED <<held, callee, action, result, gcResult, vfs, vfsAtCall,
                   pollingIteration, nInProgress, waited, lastStatus, cancelAt,
                   codeGenerationId, uploadId, ncalls, uuidCount,
                   jobPolls, exported, planReturned, errorCall, dispatched, heldAtCall>>

\* startCodeGeneration returns {codeGenerationId}; generateCode is called
StartCodeGenerationReturns ==
    /\ pc = "startCodeGeneration"
    /\ \E id \in CodeGenerationIds : codeGenerationId' = id
    /\ jobPolls' = MaxJobPolls
    /\ answers' = Append(answers, "Generating code ...")
    /\ pc' = "generateCode"
    /\ UNCHANGED <<held, callee, action, result, gcResult, vfs, vfsAtCall,
                   pollingIteration, calls, nInProgress, waited, lastStatus, cancelAt,
                   lastCall, uploadId, ncalls, uuidCount,
                   exported, planReturned, errorCall, dispatched, heldAtCall>>

\* generateCode is back in CodeGenState.interact or CodeGenIterationState.interact:
\* this.filePaths = newFilePaths and the next state is a new PrepareIterationState
GenerateCodeResumes ==
    /\ pc = "generateCodeDone"
    /\ IF gcResult.type = "ok"
       THEN /\ SetRunner("filePaths", gcResult.newFilePaths)
            /\ result' = Returned(
                   PrepareIterationState(Runner.config, Runner.approach,
                                         gcResult.newFilePaths),
                   Undefined)
       ELSE /\ result' = Thrown(Propagate(Runner.kind, gcResult.error))
            /\ UNCHANGED <<held, callee>>
    /\ pc' = "done"
    /\ UNCHANGED <<action, gcResult, vfs, vfsAtCall, pollingIteration, calls,
                   nInProgress, waited, lastStatus, cancelAt, codeGenerationId,
                   lastCall, uploadId, answers, ncalls, uuidCount,
                   jobPolls, exported, planReturned, errorCall, dispatched, heldAtCall>>

\* what MockCodeGenState.interact returns, with or without files
MockCodeGenResult ==
    Returned(RefinementState(WithConversationId(Runner.config, Runner.conversationId),
                             Runner.approach),
             Undefined)

\* MockCodeGenState.interact up to its await of fs.stat(mockedFilesDir)
MockCodeGenInteract ==
    /\ pc = "interact"
    /\ Runner.kind = "MockCodeGen"
    /\ calls' = Called("stat")
    /\ pc' = "stat"
    /\ UNCHANGED <<held, callee, action, result, gcResult, vfs, vfsAtCall,
                   pollingIteration, nInProgress, waited, lastStatus, cancelAt,
                   codeGenerationId, lastCall, uploadId, answers, ncalls, uuidCount,
                   jobPolls, exported, planReturned, errorCall, dispatched, heldAtCall>>

\* fs.stat returns: collectFiles when the directory exists
StatReturns ==
    /\ pc = "stat"
    /\ \E mockDirectoryExists \in BOOLEAN :
        IF mockDirectoryExists
        THEN /\ calls' = Called("collectFiles")
             /\ pc' = "collectFiles"
             /\ result' = result
        ELSE /\ calls' = calls
             /\ pc' = "done"
             /\ result' = MockCodeGenResult
    /\ UNCHANGED <<held, callee, action, gcResult, vfs, vfsAtCall, pollingIteration,
                   nInProgress, waited, lastStatus, cancelAt, codeGenerationId,
                   lastCall, uploadId, answers, ncalls, uuidCount,
                   jobPolls, exported, planReturned, errorCall, dispatched, heldAtCall>>

\* collectFiles returns: the files are registered under this.uploadId
CollectFilesReturns ==
    /\ pc = "collectFiles"
    /\ \E files \in MockDirectories :
        LET newFileContents ==
                [i \in 1..Len(files) |->
                    [filePath |-> ReplaceMockData(files[i].filePath),
                     fileContent |-> files[i].fileContent]]
        IN  /\ vfs' = RegisterAll(vfs, newFileContents, Runner.uploadId)
            /\ SetRunner("filePaths", FilePathsOf(newFileContents))
            /\ result' = MockCodeGenResult
    /\ pc' = "done"
    /\ UNCHANGED <<action, gcResult, vfsAtCall, pollingIteration, calls,
                   nInProgress, waited, lastStatus, cancelAt, codeGenerationId,
                   lastCall, uploadId, answers, ncalls, uuidCount,
                   jobPolls, exported, planReturned, errorCall, dispatched, heldAtCall>>

\* the catch block of MockCodeGenState.interact: the error is logged and the
\* return statement after the block is reached
CatchMockFailureRethrows(e) == Thrown(e)
CatchMockFailure(e) == MockCodeGenResult

\* fs.stat or collectFiles throws: logged, and interact returns all the same
MockCodeGenCatches ==
    /\ pc \in {"stat", "collectFiles"}
    /\ calls' = Called("loggerError")
    /\ \E e \in RemoteErrors : result' = CatchMockFailure(e)
    /\ pc' = "done"
    /\ UNCHANGED <<held, callee, action, gcResult, vfs, vfsAtCall, pollingIteration,
                   nInProgress, waited, lastStatus, cancelAt, codeGenerationId,
                   lastCall, uploadId, answers, ncalls, uuidCount,
                   jobPolls, exported, planReturned, errorCall, dispatched, heldAtCall>>

\* an awaited collaborator of interact throws
AwaitThrows ==
    /\ pc \in {"prepareRepoData", "createUploadUrl", "uploadCode", "generatePlan",
               "startCodeGeneration"}
    /\ \E e \in RemoteErrors : result' = Thrown(Propagate(Runner.kind, e))
    /\ pc' = "done"
    /\ UNCHANGED <<held, callee, action, gcResult, vfs, vfsAtCall, pollingIteration,
                   calls, nInProgress, waited, lastStatus, cancelAt, codeGenerationId,
                   lastCall, uploadId, answers, ncalls, uuidCount,
                   jobPolls, exported, planReturned, errorCall, dispatched, heldAtCall>>

(***************************************************************************)
(* SpecGenInteract: SpecGen followed by the rest of CodeGenState.interact  *)
(* or CodeGenIterationState.interact, the call being made on the state     *)
(* object itself, whose token the caller can signal                        *)
(***************************************************************************)
NextGenInteract ==
    \/ NextGen
    \/ GenerateCodeResumes

SpecGenInteract == InitGen /\ [][NextGenInteract]_vars

(***************************************************************************)
(* The Session: holds the current state and installs the returned one      *)
(***************************************************************************)
\* the conversation is set up: the Session installs a PrepareRefinementState
SessionStart ==
    /\ pc = "idle"
    /\ held.kind = "ConversationNotStarted"
    /\ held' = PrepareRefinementState(Config(ConversationId, Undefined, WorkspaceRoot), <<>>)
    /\ UNCHANGED <<callee, pc, action, result, gcResult, vfs, vfsAtCall,
                   pollingIteration, calls, nInProgress, waited, lastStatus, cancelAt,
                   codeGenerationId, lastCall, uploadId, answers, ncalls, uuidCount,
                   jobPolls, exported, planReturned, errorCall, dispatched, heldAtCall>>

\* the user accepts the approach: the Session installs a CodeGenState
SessionAcceptApproach ==
    /\ pc = "idle"
    /\ held.kind \in {"Refinement", "RefinementIteration"}
    /\ held' = CodeGenState(Config(ConversationId, held.uploadId, WorkspaceRoot),
                            held.approach)
    /\ UNCHANGED <<callee, pc, action, result, gcResult, vfs, vfsAtCall,
                   pollingIteration, calls, nInProgress, waited, lastStatus, cancelAt,
                   codeGenerationId, lastCall, uploadId, answers, ncalls, uuidCount,
                   jobPolls, exported, planReturned, errorCall, dispatched, heldAtCall>>

\* interact is over: on success the Session swaps its state for nextState
SessionInstall ==
    /\ pc = "done"
    /\ held' = IF result.type = "ok" THEN result.nextState ELSE held
    /\ callee' = NoObj
    /\ pc' = "idle"
    /\ action' = [msg |-> NoMsg]
    /\ result' = NoResult
    /\ gcResult' = NoGc
    /\ vfsAtCall' = vfs
    /\ pollingIteration' = 0
    /\ calls' = NoCalls
    /\ nInProgress' = 0
    /\ waited' = 0
    /\ lastStatus' = "none"
    /\ cancelAt' = NoCancel
    /\ codeGenerationId' = Undefined
    /\ lastCall' = NoCall
    /\ uploadId' = Undefined
    /\ answers' = <<>>
    /\ jobPolls' = 0
    /\ exported' = NotExported
    /\ planReturned' = NotPlanned
    /\ heldAtCall' = NoObj
    /\ UNCHANGED <<vfs, ncalls, uuidCount, errorCall, dispatched>>

Init ==
    /\ held = ConversationNotStartedState(<<>>)
    /\ callee = NoObj
    /\ pc = "idle"
    /\ action = [msg |-> NoMsg]
    /\ result = NoResult
    /\ gcResult = NoGc
    /\ vfs = EmptyFs
    /\ vfsAtCall = EmptyFs
    /\ pollingIteration = 0
    /\ calls = NoCalls
    /\ nInProgress = 0
    /\ waited = 0
    /\ lastStatus = "none"
    /\ cancelAt = NoCancel
    /\ codeGenerationId = Undefined
    /\ lastCall = NoCall
    /\ uploadId = Undefined
    /\ answers = <<>>
    /\ ncalls = 0
    /\ uuidCount = 0
    /\ jobPolls = 0
    /\ exported = NotExported
    /\ planReturned = NotPlanned
    /\ errorCall = NoErrorCall
    /\ dispatched = <<>>
    /\ heldAtCall = NoObj

Next ==
    \/ SessionStart
    \/ SessionAcceptApproach
    \/ Interact
    \/ SessionInstall
    \/ ConversationNotStartedInteract
    \/ PrepareInteract
    \/ PrepareRepoDataReturns
    \/ CreateUploadUrlReturns
    \/ UploadCodeReturns
    \/ RefinementInteract
    \/ RefinementIterationInteract
    \/ GeneratePlanReturns
    \/ CodeGenInteract
    \/ StartCodeGenerationReturns
    \/ GenerateCode
    \/ GetCodeGenerationReturns
    \/ GetCodeGenerationThrows
    \/ ExportResultArchiveReturns
    \/ ExportResultArchiveThrows
    \/ SleepReturns
    \/ GenerateCodeResumes
    \/ MockCodeGenInteract
    \/ StatReturns
    \/ CollectFilesReturns
    \/ MockCodeGenCatches
    \/ AwaitThrows
    \/ Cancel

Spec == Init /\ [][Next]_vars

(***************************************************************************)
(* SpecApproach: the conversation up to the acceptance of the approach.    *)
(* No interact of an Approach-phase state leads to a Codegen-phase state,  *)
(* so these are the behaviours of Spec before SessionAcceptApproach.       *)
(***************************************************************************)
NextApproach ==
    \/ SessionStart
    \/ Interact
    \/ SessionInstall
    \/ ConversationNotStartedInteract
    \/ PrepareInteract
    \/ PrepareRepoDataReturns
    \/ CreateUploadUrlReturns
    \/ UploadCodeReturns
    \/ RefinementInteract
    \/ RefinementIterationInteract
    \/ GeneratePlanReturns
    \/ MockCodeGenInteract
    \/ StatReturns
    \/ CollectFilesReturns
    \/ MockCodeGenCatches
    \/ AwaitThrows
    \/ Cancel

SpecApproach == Init /\ [][NextApproach]_vars

(***************************************************************************)
(* SpecCodegen: the conversation from the acceptance of the approach on.   *)
(* It starts where SessionAcceptApproach leaves Spec after one successful  *)
(* call of the approach phase: a new CodeGenState on the uploadId and the  *)
(* approach of that call.                                                  *)
(***************************************************************************)
\* approach texts a successful approach call can leave: the fallback text, the
\* empty text and a plan text; the Codegen phase only carries the text along
AcceptedApproaches ==
    {SanitizeHtml(OrFallback(plan)) : plan \in {q \in Plans : Len(q.text) <= 1}}

InitCodegen ==
    /\ \E u \in ServerUploadIds, approach \in AcceptedApproaches :
         held = CodeGenState(Config(ConversationId, u, WorkspaceRoot), approach)
    /\ callee = NoObj
    /\ pc = "idle"
    /\ action = [msg |-> NoMsg]
    /\ result = NoResult
    /\ gcResult = NoGc
    /\ vfs = EmptyFs
    /\ vfsAtCall = EmptyFs
    /\ pollingIteration = 0
    /\ calls = NoCalls
    /\ nInProgress = 0
    /\ waited = 0
    /\ lastStatus = "none"
    /\ cancelAt = NoCancel
    /\ codeGenerationId = Undefined
    /\ lastCall = NoCall
    /\ uploadId = Undefined
    /\ answers = <<>>
    /\ ncalls = 1
    /\ uuidCount = 0
    /\ jobPolls = 0
    /\ exported = NotExported
    /\ planReturned = NotPlanned
    /\ errorCall = NoErrorCall
    /\ dispatched = <<>>
    /\ heldAtCall = NoObj

NextCodegen ==
    \/ Interact
    \/ SessionInstall
    \/ PrepareInteract
    \/ PrepareRepoDataReturns
    \/ CreateUploadUrlReturns
    \/ UploadCodeReturns
    \/ CodeGenInteract
    \/ StartCodeGenerationReturns
    \/ GenerateCode
    \/ GetCodeGenerationReturns
    \/ GetCodeGenerationThrows
    \/ ExportResultArchiveReturns
    \/ ExportResultArchiveThrows
    \/ SleepReturns
    \/ GenerateCodeResumes
    \/ AwaitThrows
    \/ Cancel

SpecCodegen == InitCodegen /\ [][NextCodegen]_vars

(***************************************************************************)
(* Messenger.sendErrorMessage: what the UI layer sends when interact fails *)
(***************************************************************************)
\* the user copies of sendErrorMessage
UnableCopy == "Sorry, we're unable to provide a response at this time. Please try again later or share feedback with our team to help us troubleshoot."
TryAgainCopy == "Sorry, we're experiencing an issue on our side. Would you like to try again?"
RestartingCopy == "Sorry, we're experiencing an issue on our side. Restarting generation..."

\* new ErrorMessage(title, message, tabID), handed to dispatcher.sendErrorMessage
ErrorMessage(title, message, tabID) ==
    [sent |-> "ErrorMessage", title |-> title, message |-> message, tabID |-> tabID]

\* sendAnswer(params): the ChatMessage handed to dispatcher.sendChatMessage;
\* canBeVoted is not given by sendErrorMessage, so it is false
SendAnswer(params) ==
    [sent |-> "ChatMessage", message |-> params.message, messageType |-> params.type,
     followUps |-> params.followUps, relatedSuggestions |-> Undefined,
     canBeVoted |-> FALSE, tabID |-> params.tabID]

RetryFollowUp == [pillText |-> "Retry", type |-> "FollowUpTypes.Retry", status |-> "warning"]

\* if (retries === 0)
RetriesExhaustedBelowOne(retries) == retries <= 0
RetriesExhausted(retries) == retries = 0

\* switch (phase): the copy of the error message
ErrorCopySameForAll(phase) == TryAgainCopy
ErrorCopy(phase) ==
    CASE phase = "Approach" -> TryAgainCopy
      [] phase = "Codegen" -> RestartingCopy
      [] OTHER -> TryAgainCopy

\* the messages sendErrorMessage hands to the dispatcher, in order
SendErrorMessage(errorMessage, tabID, retries, phase) ==
    IF RetriesExhausted(retries)
    THEN <<ErrorMessage(UnableCopy, errorMessage, tabID)>>
    ELSE <<ErrorMessage(ErrorCopy(phase), errorMessage, tabID),
           SendAnswer([message |-> Undefined, type |-> "system-prompt",
                       followUps |-> <<RetryFollowUp>>, tabID |-> tabID])>>

\* the arguments the UI layer calls sendErrorMessage with
ErrorMessages == {"", "Code generation failed", "Server side error"}
TabIDs == {TabID, "tab2"}
RetryCounts == {-1, 0, 1, 2}
PhaseArguments == {"Init", "Approach", "Codegen", Undefined}

\* sendErrorMessage runs without suspension
SendErrorMessageRuns ==
    /\ pc = "sendErrorMessage"
    /\ dispatched' = dispatched \o SendErrorMessage(errorCall.errorMessage, errorCall.tabID,
                                                    errorCall.retries, errorCall.phase)
    /\ pc' = "errorSent"
    /\ UNCHANGED <<held, callee, action, result, gcResult, vfs, vfsAtCall,
                   pollingIteration, calls, nInProgress, waited, lastStatus, cancelAt,
                   codeGenerationId, lastCall, uploadId, answers, ncalls, uuidCount,
                   jobPolls, exported, planReturned, errorCall, heldAtCall>>

InitMessenger ==
    /\ \E errorMessage \in ErrorMessages, tabID \in TabIDs, retries \in RetryCounts,
          phase \in PhaseArguments :
         errorCall = [errorMessage |-> errorMessage, tabID |-> tabID,
                      retries |-> retries, phase |-> phase]
    /\ dispatched = <<>>
    /\ heldAtCall = NoObj
    /\ pc = "sendErrorMessage"
    /\ held = ConversationNotStartedState(<<>>)
    /\ callee = NoObj
    /\ action = [msg |-> NoMsg]
    /\ result = NoResult
    /\ gcResult = NoGc
    /\ vfs = EmptyFs
    /\ vfsAtCall = EmptyFs
    /\ pollingIteration = 0
    /\ calls = NoCalls
    /\ nInProgress = 0
    /\ waited = 0
    /\ lastStatus = "none"
    /\ cancelAt = NoCancel
    /\ codeGenerationId = Undefined
    /\ lastCall = NoCall
    /\ uploadId = Undefined
    /\ answers = <<>>
    /\ ncalls = 0
    /\ uuidCount = 0
    /\ jobPolls = 0
    /\ exported = NotExported
    /\ planReturned = NotPlanned

NextMessenger == SendErrorMessageRuns

SpecMessenger == InitMessenger /\ [][NextMessenger]_vars

(***************************************************************************)
(* Properties                                                              *)
(***************************************************************************)
EmptyResult == GcReturned(<<>>, <<>>)
GenerateCodeOver == pc = "generateCodeDone"
\* the token was not signaled while generateCode ran
NotCancelledDuringCall == cancelAt = NoCancel
\* the remote calls the running interact call has made
NoRemoteCallMade ==
    /\ calls.createUploadUrl = 0
    /\ calls.uploadCode = 0
    /\ calls.generatePlan = 0
    /\ calls.startCodeGeneration = 0
\* every query so far was answered, and answered with an in-progress status
OnlyInProgressAnswers == nInProgress = calls.getCodeGeneration
\* the query answered last was the first answer that was not in progress
StoppedAtLastAnswer ==
    /\ calls.getCodeGeneration = nInProgress + 1
    /\ calls.sleep = nInProgress
    /\ waited = nInProgress * requestDelay

\* the message check of a RefinementState or RefinementIterationState was
\* reached with an absent or empty message, and the call is over
MissingMessageCallOver ==
    /\ pc = "done"
    /\ Runner.kind \in {"Refinement", "RefinementIteration"}
    /\ Falsy(action.msg)

\* C1 (as stated): when the interact of a RefinementState or
\* RefinementIterationState (also the RefinementState a PrepareRefinementState
\* delegates to) is given an absent or empty message, the call fails with the
\* user-message-not-found error and has made no remote call by then.
C1_MissingMessageFailsBeforeAnyRemoteCall ==
    MissingMessageCallOver
    => /\ result = Thrown(UserMessageNotFoundError)
       /\ NoRemoteCallMade

\* C1 (amended): such a call fails with the user-message-not-found error without
\* a generatePlan or startCodeGeneration call; called on the state itself it has
\* made no remote call at all, called through PrepareRefinementState.interact it
\* has made exactly the createUploadUrl call and the upload transfer of that
\* state.
C1_MissingMessageFailsBeforePlanning ==
    MissingMessageCallOver
    => /\ result = Thrown(UserMessageNotFoundError)
       /\ calls.generatePlan = 0
       /\ calls.startCodeGeneration = 0
       /\ vfs = vfsAtCall
       /\ IF callee = NoObj
          THEN NoRemoteCallMade
          ELSE /\ held.kind = "PrepareRefinement"
               /\ calls.createUploadUrl = 1
               /\ calls.uploadCode = 1
C1_Witness ==
    /\ MissingMessageCallOver
    /\ held.kind = "Refinement"
    /\ callee = NoObj
    /\ action.msg.defined
    /\ result.error = UserMessageNotFoundError

\* C2: after n in-progress answers (n < 180) followed by Complete, without
\* cancellation, generateCode has made n + 1 status queries and n sleeps of
\* requestDelay ms, returns the exported files and their paths, and the file
\* system has, at path.join(uploadId, filePath) of every exported file, the
\* bytes of the last exported file with that path, and is otherwise unchanged.
C2_CompleteAfterNPolls ==
    (/\ GenerateCodeOver
     /\ lastStatus = "Complete"
     /\ exported.defined
     /\ NotCancelledDuringCall)
    => /\ nInProgress < pollCount
       /\ StoppedAtLastAnswer
       /\ gcResult = GcReturned(exported.files, FilePathsOf(exported.files))
       /\ \A i \in 1..Len(exported.files) :
            LET uri == PathJoin(Runner.uploadId, exported.files[i].filePath)
                last == CHOOSE j \in 1..Len(exported.files) :
                          /\ PathJoin(Runner.uploadId, exported.files[j].filePath) = uri
                          /\ \A k \in (j + 1)..Len(exported.files) :
                               PathJoin(Runner.uploadId, exported.files[k].filePath) # uri
            IN  /\ uri \in DOMAIN vfs
                /\ vfs[uri] = Utf8Encode(exported.files[last].fileContent)
       /\ \A uri \in DOMAIN vfs :
            \/ uri \in DOMAIN vfsAtCall /\ vfs[uri] = vfsAtCall[uri]
            \/ \E i \in 1..Len(exported.files) :
                 uri = PathJoin(Runner.uploadId, exported.files[i].filePath)
       /\ DOMAIN vfsAtCall \subseteq DOMAIN vfs
C2_Witness ==
    /\ GenerateCodeOver
    /\ lastStatus = "Complete"
    /\ NotCancelledDuringCall
    /\ nInProgress = 2
    /\ calls.getCodeGeneration = 3
    /\ gcResult.type = "ok"
    /\ Len(gcResult.newFiles) = MaxFiles
    /\ <<Runner.uploadId, "a.ts">> \in DOMAIN vfs
    /\ vfs[<<Runner.uploadId, "a.ts">>] # vfsAtCall[<<Runner.uploadId, "a.ts">>]

\* C3: once a status query has returned Failed, predict-failed or debate-failed,
\* generateCode is over with the code-generation-failed error: that query was the
\* last one, no sleep and no export followed it, and the file system is as it
\* was when the call started.
C3_FailedStatusFailsAtOnce ==
    lastStatus \in FailedStatuses
    => /\ GenerateCodeOver
       /\ gcResult = GcThrown(CodeGenerationFailed)
       /\ StoppedAtLastAnswer
       /\ calls.exportResultArchive = 0
       /\ vfs = vfsAtCall
C3_Witness ==
    /\ GenerateCodeOver
    /\ lastStatus = "debate-failed"
    /\ nInProgress = 2
    /\ gcResult.error = CodeGenerationFailed

\* C4: once a status query has returned a value that is none of Complete,
\* InProgress, predict-ready, Failed, predict-failed, debate-failed, generateCode
\* is over with the unknown-status error carrying that value: that query was the
\* last one and the file system is as it was when the call started.
C4_UnknownStatusFailsAtOnce ==
    (lastStatus # "none" /\ lastStatus \notin KnownStatuses)
    => /\ GenerateCodeOver
       /\ gcResult.type = "error"
       /\ gcResult.error.name = "UnknownStatus"
       /\ gcResult.error.detail = lastStatus
       /\ StoppedAtLastAnswer
       /\ calls.exportResultArchive = 0
       /\ vfs = vfsAtCall
C4_Witness ==
    /\ GenerateCodeOver
    /\ lastStatus = "weird-status"
    /\ nInProgress = 1
    /\ gcResult.error.detail = "weird-status"

\* C5: generateCode never makes a 181st status query; when every query was
\* answered with an in-progress status and the token was not signaled, the call
\* ends after exactly 180 queries with the timeout error, the file system being
\* as it was when the call started.
C5_TimeoutAfterPollCountQueries ==
    /\ calls.getCodeGeneration <= pollCount
    /\ (GenerateCodeOver /\ OnlyInProgressAnswers /\ NotCancelledDuringCall)
       => /\ calls.getCodeGeneration = pollCount
          /\ calls.sleep = pollCount
          /\ gcResult = GcThrown(TimeoutError)
          /\ calls.exportResultArchive = 0
          /\ vfs = vfsAtCall
C5_Witness ==
    /\ GenerateCodeOver
    /\ OnlyInProgressAnswers
    /\ cancelAt = NoCancel
    /\ calls.getCodeGeneration = pollCount
    /\ gcResult.error = TimeoutError

\* C6 (as stated): when the token is signaled before the first status query has
\* completed, be it before the loop starts or while that query is in flight,
\* generateCode returns the empty result whatever that query returns.
CancelledBeforeLoop == cancelAt.query = 0
CancelledDuringFirstQuery == cancelAt.query = 1 /\ cancelAt.pc = "getCodeGeneration"
C6_CancelBeforeFirstAnswerGivesEmptyResult ==
    (GenerateCodeOver /\ (CancelledBeforeLoop \/ CancelledDuringFirstQuery))
    => gcResult = EmptyResult

\* C6 (amended): when the token is signaled before the first status query is
\* sent, generateCode returns the empty result without a query and without a
\* change of the file system; when it is signaled while the first query is in
\* flight, the empty result is returned if that query answers with an in-progress
\* status (after the sleep, without a second query).
C6_CancelBeforeFirstQueryGivesEmptyResult ==
    /\ (pc # "generateCode" /\ CancelledBeforeLoop)
       => /\ GenerateCodeOver
          /\ gcResult = EmptyResult
          /\ calls.getCodeGeneration = 0
          /\ vfs = vfsAtCall
    /\ (GenerateCodeOver /\ CancelledDuringFirstQuery /\ lastStatus \in InProgressStatuses)
       => /\ gcResult = EmptyResult
          /\ calls.getCodeGeneration = 1
          /\ vfs = vfsAtCall
C6_Witness ==
    /\ GenerateCodeOver
    /\ CancelledBeforeLoop
    /\ gcResult = EmptyResult
    /\ calls.getCodeGeneration = 0

\* C7: once the token of the running state is signaled no further status query
\* is sent, but the answer to a query in flight is acted on as ever: Complete is
\* followed by the export, whose files are returned and registered, and a failure
\* status raises the code-generation-failed error.
AnswerActedOn ==
    /\ lastStatus = "Complete"
       => \/ pc = "exportResultArchive"
          \/ /\ GenerateCodeOver
             /\ exported.defined
                => /\ gcResult = GcReturned(exported.files, FilePathsOf(exported.files))
                   /\ \A i \in 1..Len(exported.files) :
                        PathJoin(Runner.uploadId, exported.files[i].filePath) \in DOMAIN vfs
    /\ lastStatus \in FailedStatuses
       => GenerateCodeOver /\ gcResult = GcThrown(CodeGenerationFailed)
C7_CancellationSeenOnlyAtLoopHead ==
    [][/\ Runner.isCancellationRequested
          => calls'.getCodeGeneration = calls.getCodeGeneration
       /\ AnswerActedOn']_vars
C7_Witness ==
    /\ GenerateCodeOver
    /\ cancelAt.pc = "getCodeGeneration"
    /\ cancelAt.query = 2
    /\ lastStatus = "Complete"
    /\ calls.getCodeGeneration = 2
    /\ gcResult.type = "ok"
    /\ gcResult.newFiles # <<>>

\* C8: when the loop ends without a Complete, failure or unknown status, the
\* token alone decides: signaled, generateCode returns the empty result and
\* leaves the file system alone; not signaled, it throws the timeout error.
LoopEnds == pc \in {"generateCode", "sleep"} /\ pc' = "generateCodeDone"
C8_LoopExitDecidedByToken ==
    [][LoopEnds
       => IF Runner.isCancellationRequested
          THEN gcResult' = EmptyResult /\ vfs' = vfsAtCall
          ELSE gcResult' = GcThrown(TimeoutError)]_vars
C8_Witness ==
    /\ GenerateCodeOver
    /\ cancelAt = [query |-> pollCount, pc |-> "sleep"]
    /\ calls.sleep = pollCount
    /\ gcResult = EmptyResult
    /\ vfs = vfsAtCall

\* C9: when every remote call returns or throws and every timer fires, every
\* generateCode call comes to an end, and it never makes more than 180 status
\* queries or more than 180 sleeps.
C9_GenerateCodeTerminates ==
    /\ <>GenerateCodeOver
    /\ [](calls.getCodeGeneration <= pollCount /\ calls.sleep <= pollCount)
C9_Witness ==
    /\ GenerateCodeOver
    /\ calls.sleep = pollCount
    /\ calls.getCodeGeneration = pollCount
    /\ gcResult.type = "error"

\* C10: ConversationNotStartedState.interact throws the illegal-transition error
\* for every action: no next state, no remote call, no delegate and no change of
\* the file system.
C10_ConversationNotStartedAlwaysFails ==
    (pc = "done" /\ held.kind = "ConversationNotStarted")
    => /\ result = Thrown(IllegalTransition)
       /\ result.nextState = NoObj
       /\ calls = NoCalls
       /\ callee = NoObj
       /\ vfs = vfsAtCall
C10_Witness ==
    /\ pc = "done"
    /\ held.kind = "ConversationNotStarted"
    /\ ~Falsy(action.msg)
    /\ result.type = "error"

\* the call of a state of the given kind (the held state, or the state the held
\* one delegated to) is over and has returned
ReturnedBy(kind) == pc = "done" /\ Runner.kind = kind /\ result.type = "ok"
\* a plan text without its script elements
IsNotScript(chunk) == chunk # "<script>alert(1)</script>"
WithoutScripts(plan) ==
    SelectSeq(IF plan.defined THEN plan.text ELSE FallbackApproach, IsNotScript)
\* none of the calls that snapshot and upload the workspace was made
NoUpload ==
    /\ calls.prepareRepoData = 0
    /\ calls.createUploadUrl = 0
    /\ calls.uploadCode = 0

\* C11: when RefinementState.interact is given a non-empty message and
\* generatePlan returns, generatePlan was called exactly once, with the state's
\* conversationId, uploadId and the message; the next state is a
\* RefinementIterationState with the same conversationId and uploadId whose
\* approach is the returned plan (the fallback text when it is undefined) without
\* its script elements, and the interaction content is that approach followed by
\* a newline.
C11_RefinementSucceeds ==
    ReturnedBy("Refinement")
    => /\ ~Falsy(action.msg)
       /\ planReturned.returned
       /\ calls.generatePlan = 1
       /\ lastCall = RemoteCall("generatePlan", Runner.conversationId, Runner.uploadId,
                                action.msg, Undefined)
       /\ result.nextState.kind = "RefinementIteration"
       /\ result.nextState.approach = WithoutScripts(planReturned.plan)
       /\ result.nextState.conversationId = Runner.conversationId
       /\ result.nextState.uploadId = Runner.uploadId
       /\ result.content = result.nextState.approach \o <<"\n">>
C11_Witness ==
    /\ ReturnedBy("Refinement")
    /\ Runner.uploadId \in ServerUploadIds
    /\ planReturned.plan.text = <<"text", "<script>alert(1)</script>">>
    /\ result.nextState.approach = <<"text">>
    /\ result.content = <<"text", "\n">>

\* the interact of a RefinementIterationState was called with a message that
\* has the sentinel somewhere, and the call is over
HasSentinel(m) == m.defined /\ \E i \in 1..Len(m.text) : m.text[i] = "MOCK CODE"
SentinelCallOver ==
    /\ pc = "done"
    /\ held.kind = "RefinementIteration"
    /\ HasSentinel(action.msg)

\* C12 (as stated): RefinementIterationState.interact given a message with the
\* sentinel 'MOCK CODE' anywhere in it does not call generatePlan, and the next
\* state it produces is a MockCodeGenState.
C12_SentinelProducesMockCodeGen ==
    SentinelCallOver
    => /\ calls.generatePlan = 0
       /\ result.type = "ok"
       /\ result.nextState.kind = "MockCodeGen"

\* C12 (amended): such a call delegates to a new MockCodeGenState, whatever else
\* the message holds: MockCodeGenState.interact runs within the call, no remote
\* call and no generatePlan call is made, and the next state the call produces
\* is the one MockCodeGenState.interact returns, a RefinementState.
C12_SentinelDelegatesToMockCodeGen ==
    /\ (held.kind = "RefinementIteration" /\ HasSentinel(action.msg)
           /\ pc \notin {"idle", "interact"})
       => /\ callee.kind = "MockCodeGen"
          /\ calls.stat = 1
    /\ SentinelCallOver
       => /\ calls.generatePlan = 0
          /\ NoRemoteCallMade
          /\ result.type = "ok"
          /\ result.nextState.kind = "Refinement"
C12_Witness ==
    /\ SentinelCallOver
    /\ action.msg.text = <<"fix it", "MOCK CODE">>
    /\ callee.kind = "MockCodeGen"
    /\ result.nextState.kind = "Refinement"

\* the interact of a RefinementIterationState was called with a non-empty
\* message without the sentinel, and the call has returned
PlainIterationReturned ==
    /\ ReturnedBy("RefinementIteration")
    /\ callee = NoObj
    /\ ~HasSentinel(action.msg)

\* C13: RefinementIterationState.interact given a non-empty message without the
\* sentinel calls generatePlan once and returns a new RefinementIterationState
\* with the same conversationId and uploadId and the newly generated approach,
\* without a snapshot or upload of the workspace and without a change of the
\* file system; this holds for every call of a sequence of such calls.
C13_IterationSelfLoop ==
    /\ PlainIterationReturned
       => /\ ~Falsy(action.msg)
          /\ calls.generatePlan = 1
          /\ lastCall = RemoteCall("generatePlan", held.conversationId, held.uploadId,
                                   action.msg, Undefined)
          /\ NoUpload
          /\ result.nextState.kind = "RefinementIteration"
          /\ result.nextState.conversationId = held.conversationId
          /\ result.nextState.uploadId = held.uploadId
          /\ result.nextState.approach = WithoutScripts(planReturned.plan)
          /\ result.content = result.nextState.approach \o <<"\n">>
          /\ vfs = vfsAtCall
    /\ (held.kind = "RefinementIteration" /\ pc \notin {"idle", "interact"}
           /\ ~Falsy(action.msg) /\ ~HasSentinel(action.msg))
       => callee = NoObj /\ calls.generatePlan = 1
\* the third call of the conversation, on a state an earlier call returned
C13_Witness ==
    /\ PlainIterationReturned
    /\ ncalls = 3
    /\ held.approach = <<"text">>
    /\ planReturned.plan.text = <<"<script>alert(1)</script>", "text">>
    /\ result.nextState.approach = <<"text">>
    /\ result.nextState.uploadId = held.uploadId

\* PrepareRefinementState.interact has returned
PrepareRefinementReturned ==
    pc = "done" /\ held.kind = "PrepareRefinement" /\ result.type = "ok"
\* the snapshot and upload of a Prepare* interact: createUploadUrl once, then the
\* upload transfer once, with what createUploadUrl returned
UploadedOnceInOrder ==
    /\ calls.prepareRepoData <= 1
    /\ calls.createUploadUrl <= 1
    /\ calls.uploadCode <= 1
    /\ calls.createUploadUrl = 1 => calls.prepareRepoData = 1
    /\ calls.uploadCode = 1
       => calls.createUploadUrl = 1 /\ uploadId \in ServerUploadIds
    /\ callee # NoObj => calls.uploadCode = 1 /\ pc # "uploadCode"

\* C14 (as stated): PrepareRefinementState.interact uploads the workspace
\* (createUploadUrl, then the upload transfer, each once), delegates to
\* RefinementState.interact with the same action and the new uploadId, and the
\* state it produces for the caller to install is a RefinementState.
C14_PrepareRefinementProducesRefinement ==
    PrepareRefinementReturned
    => /\ calls.createUploadUrl = 1
       /\ calls.uploadCode = 1
       /\ callee.kind = "Refinement"
       /\ callee.uploadId = uploadId
       /\ result.nextState.kind = "Refinement"

\* C14 (amended): PrepareRefinementState.interact calls createUploadUrl once,
\* then the upload transfer once, then builds a RefinementState on the new
\* uploadId and calls its interact with the same action; the state it produces
\* for the caller to install is the one RefinementState.interact returns, a
\* RefinementIterationState with the new uploadId.
C14_PrepareRefinementDelegates ==
    /\ held.kind = "PrepareRefinement"
       => /\ UploadedOnceInOrder
          /\ callee # NoObj
             => /\ callee.kind = "Refinement"
                /\ callee.uploadId = uploadId
                /\ callee.conversationId = held.config.conversationId
          /\ calls.generatePlan = 1
             => /\ callee # NoObj
                /\ lastCall = RemoteCall("generatePlan", callee.conversationId,
                                         uploadId, action.msg, Undefined)
    /\ PrepareRefinementReturned
       => /\ calls.createUploadUrl = 1
          /\ calls.uploadCode = 1
          /\ calls.generatePlan = 1
          /\ result.nextState.kind = "RefinementIteration"
          /\ result.nextState.uploadId = uploadId
          /\ result.nextState.conversationId = held.config.conversationId
C14_Witness ==
    /\ PrepareRefinementReturned
    /\ callee.kind = "Refinement"
    /\ callee.uploadId = "u2"
    /\ lastCall.msg.text = <<"fix it">>
    /\ result.nextState.kind = "RefinementIteration"
    /\ result.nextState.uploadId = "u2"

\* the interact of a CodeGenState or CodeGenIterationState (called by the
\* Session or by a PrepareIterationState) is running or over
CodeGenRunning ==
    pc \notin {"idle", "interact"} /\ Runner.kind \in {"CodeGen", "CodeGenIteration"}
CodeGenReturned ==
    pc = "done" /\ Runner.kind \in {"CodeGen", "CodeGenIteration"} /\ result.type = "ok"

\* C15: CodeGenState.interact and CodeGenIterationState.interact start one
\* code-generation job, and no status query is sent before startCodeGeneration
\* has returned the job id; every status query asks for that job id; when the
\* call returns, the next state is a PrepareIterationState whose file list is
\* the list of file paths generateCode returned.
C15_CodeGenSucceeds ==
    /\ CodeGenRunning
       => /\ calls.startCodeGeneration = 1
          /\ pc = "startCodeGeneration"
             => calls.getCodeGeneration = 0 /\ codeGenerationId = Undefined
          /\ calls.getCodeGeneration > 0 => codeGenerationId \in CodeGenerationIds
          /\ pc = "getCodeGeneration"
             => lastCall = RemoteCall("getCodeGeneration", Runner.conversationId,
                                      Undefined, NoMsg, codeGenerationId)
    /\ CodeGenReturned
       => /\ gcResult.type = "ok"
          /\ result.nextState.kind = "PrepareIteration"
          /\ result.nextState.filePaths = gcResult.newFilePaths
          /\ exported.defined
             => result.nextState.filePaths = FilePathsOf(exported.files)
C15_Witness ==
    /\ CodeGenReturned
    /\ Runner.kind = "CodeGenIteration"
    /\ calls.getCodeGeneration = 2
    /\ codeGenerationId = "job2"
    /\ result.nextState.filePaths = <<<<"a.ts">>, <<"..", "u2", "a.ts">>>>

\* PrepareIterationState.interact has returned
PrepareIterationReturned ==
    pc = "done" /\ held.kind = "PrepareIteration" /\ result.type = "ok"

\* C16 (as stated): PrepareIterationState.interact uploads the workspace again,
\* delegates to CodeGenIterationState.interact with the same action, and the
\* state it produces for the caller to install is a CodeGenIterationState.
C16_PrepareIterationProducesCodeGenIteration ==
    PrepareIterationReturned
    => /\ calls.createUploadUrl = 1
       /\ calls.uploadCode = 1
       /\ callee.kind = "CodeGenIteration"
       /\ result.nextState.kind = "CodeGenIteration"

\* C16 (amended): PrepareIterationState.interact calls createUploadUrl once,
\* then the upload transfer once, then builds a CodeGenIterationState and calls
\* its interact with the same action (its message goes to startCodeGeneration);
\* the state it produces for the caller to install is the one
\* CodeGenIterationState.interact returns, a PrepareIterationState.
C16_PrepareIterationDelegates ==
    /\ held.kind = "PrepareIteration"
       => /\ UploadedOnceInOrder
          /\ callee # NoObj => callee.kind = "CodeGenIteration"
          /\ calls.startCodeGeneration > 0 => callee # NoObj
          /\ pc = "startCodeGeneration" => lastCall.msg = action.msg
    /\ PrepareIterationReturned
       => /\ calls.createUploadUrl = 1
          /\ calls.uploadCode = 1
          /\ calls.startCodeGeneration = 1
          /\ callee.kind = "CodeGenIteration"
          /\ result.nextState.kind = "PrepareIteration"
C16_Witness ==
    /\ PrepareIterationReturned
    /\ callee.kind = "CodeGenIteration"
    /\ action.msg.text = <<"fix it">>
    /\ lastStatus = "Complete"
    /\ result.nextState.kind = "PrepareIteration"
    /\ result.nextState.filePaths # held.filePaths

\* C17: in a PrepareIterationState.interact call, once createUploadUrl has
\* returned an uploadId, the delegate is built on it, startCodeGeneration is
\* called with it, the exported files are registered at
\* path.join(that uploadId, filePath), and the state returned carries it, also
\* when the state called was built on another uploadId.
C17_LatestUploadIsUsed ==
    (held.kind = "PrepareIteration" /\ callee # NoObj)
    => /\ uploadId \in ServerUploadIds
       /\ callee.config.uploadId = uploadId
       /\ callee.uploadId = uploadId
       /\ pc = "startCodeGeneration"
          => lastCall = RemoteCall("startCodeGeneration", callee.conversationId,
                                   uploadId, action.msg, Undefined)
       /\ (pc \in {"generateCodeDone", "done"} /\ exported.defined)
          => \A i \in 1..Len(exported.files) :
               PathJoin(uploadId, exported.files[i].filePath) \in DOMAIN vfs
       /\ (pc = "done" /\ result.type = "ok")
          => /\ result.nextState.uploadId = uploadId
             /\ result.nextState.config.uploadId = uploadId
C17_Witness ==
    /\ PrepareIterationReturned
    /\ held.config.uploadId = "u1"
    /\ uploadId = "u2"
    /\ exported.defined
    /\ <<"u2", "a.ts">> \in DOMAIN vfs
    /\ <<"u2", "a.ts">> \notin DOMAIN vfsAtCall
    /\ result.nextState.uploadId = "u2"

\* MockCodeGenState.interact is over
MockCodeGenOver == pc = "done" /\ Runner.kind = "MockCodeGen"
\* the mock-data directory was absent, or fs.stat or collectFiles threw
MockDataNotRead == calls.collectFiles = 0 \/ calls.loggerError > 0

\* C18: MockCodeGenState.interact makes no call of the remote service and never
\* fails: with the mock-data directory present, absent or unreadable it returns
\* a RefinementState as next state and an empty interaction; when the directory
\* is absent or reading it fails, the file system is as it was when the call
\* started.
C18_MockCodeGenNeverFails ==
    /\ Runner.kind = "MockCodeGen"
       => /\ result.type # "error"
          /\ NoRemoteCallMade
          /\ NoUpload
          /\ calls.getCodeGeneration = 0
          /\ calls.exportResultArchive = 0
    /\ MockCodeGenOver
       => /\ result.type = "ok"
          /\ result.nextState.kind = "Refinement"
          /\ result.content = Undefined
          /\ calls.stat = 1
          /\ MockDataNotRead => vfs = vfsAtCall /\ Runner.filePaths = <<>>
C18_Witness ==
    /\ MockCodeGenOver
    /\ calls.collectFiles = 1
    /\ calls.loggerError = 1
    /\ result.nextState.kind = "Refinement"
    /\ vfs = vfsAtCall

\* the state objects there are: the one the Session holds, the delegate of the
\* running call and the next state the call has returned
LiveObjects ==
    {held} \cup (IF callee # NoObj THEN {callee} ELSE {})
           \cup (IF result.type = "ok" THEN {result.nextState} ELSE {})
Phases == {"Init", "Approach", "Codegen"}
\* the phase the class of a state declares
DeclaredPhase(kind) ==
    CASE kind = "ConversationNotStarted" -> "Init"
      [] kind \in {"PrepareRefinement", "Refinement", "RefinementIteration"} -> "Approach"
      [] kind \in {"CodeGen", "PrepareIteration", "CodeGenIteration"} -> "Codegen"
      [] OTHER -> Undefined

\* C19 (as stated): every state object carries a phase that is one of Init,
\* Approach and Codegen, the one its class declares, in every reachable state.
C19_EveryStateHasAPhase ==
    \A o \in LiveObjects :
        /\ o.phase \in Phases
        /\ o.phase = DeclaredPhase(o.kind)

\* C19 (amended): every state object but a MockCodeGenState carries a phase that
\* is one of Init, Approach and Codegen; a MockCodeGenState carries none; and in
\* every reachable state the phase of an object is the one its class declares
\* (Init for ConversationNotStarted, Approach for PrepareRefinement, Refinement
\* and RefinementIteration, Codegen for CodeGen, PrepareIteration and
\* CodeGenIteration), so it never changes after construction.
C19_PhaseIsDeclaredAndFixed ==
    \A o \in LiveObjects :
        /\ o.kind # "MockCodeGen" => o.phase \in Phases
        /\ o.kind = "MockCodeGen" => o.phase = Undefined
        /\ o.phase = DeclaredPhase(o.kind)
C19_Witness ==
    /\ pc = "done"
    /\ held.kind = "RefinementIteration" /\ held.phase = "Approach"
    /\ callee.kind = "MockCodeGen" /\ callee.phase = Undefined
    /\ callee.filePaths # <<>>
    /\ result.type = "ok" /\ result.nextState.phase = "Approach"

\* C20: the phase of the state the Session holds never moves backwards, and a
\* call that returns never returns a next state of an earlier phase than the
\* state it was called on or the state that one delegated to (when it has a
\* phase): no Codegen state returns an Approach or Init state, and no Approach
\* state returns an Init state.
PhaseRank(phase) ==
    CASE phase = "Init" -> 0
      [] phase = "Approach" -> 1
      [] phase = "Codegen" -> 2
      [] OTHER -> -1
C20_PhaseNeverMovesBack ==
    [][/\ PhaseRank(held'.phase) >= PhaseRank(held.phase)
       /\ result'.type = "ok"
          => /\ PhaseRank(result'.nextState.phase) >= PhaseRank(held'.phase)
             /\ PhaseRank(result'.nextState.phase) >= PhaseRank(callee'.phase)]_vars
C20_Witness ==
    /\ pc = "done"
    /\ ncalls = 3
    /\ held.kind = "PrepareIteration" /\ held.phase = "Codegen"
    /\ callee.kind = "CodeGenIteration"
    /\ result.type = "ok"
    /\ result.nextState.kind = "PrepareIteration"
    /\ result.nextState.phase = "Codegen"

\* the Session puts another state object in the place of the one it holds
SessionReplacesState ==
    \/ pc = "idle" /\ held'.kind # held.kind
    \/ pc = "done" /\ result.type = "ok" /\ held' = result.nextState

\* C21: no step of an interact call changes the config of a state object: the
\* config of the held state changes only when the Session installs another
\* state, the config of a delegate never changes, and a transition to a new
\* uploadId builds the delegate on a new config that has it, while the config
\* the called state was constructed with keeps its conversationId, uploadId and
\* workspaceRoot (only the uploadId field of a PrepareIterationState itself is
\* assigned).
C21_ConfigNeverMutated ==
    [][/\ held'.config # held.config => SessionReplacesState
       /\ (callee # NoObj /\ callee' # NoObj) => callee'.config = callee.config
       /\ (callee = NoObj /\ callee' # NoObj /\ held.kind \in {"PrepareRefinement", "PrepareIteration"})
          => /\ callee'.config = [held.config EXCEPT !.uploadId = uploadId]
             /\ held'.config = held.config]_vars
C21_Witness ==
    /\ pc = "done"
    /\ held.kind = "PrepareIteration"
    /\ held.config = Config(ConversationId, "u1", WorkspaceRoot)
    /\ held.uploadId = "u2"
    /\ callee.config = Config(ConversationId, "u2", WorkspaceRoot)
    /\ result.type = "ok"
    /\ result.nextState.config.uploadId = "u2"

\* the calls of the remote client; the upload transfer goes to the upload URL
\* and has no conversationId argument
ClientCalls ==
    {"createUploadUrl", "generatePlan", "startCodeGeneration", "getCodeGeneration",
     "exportResultArchive"}

\* C22: the conversationId never changes: the delegate of a call and the next
\* state a call returns carry, in their config and in their conversationId
\* field, the conversationId of the config of the state the call was made on,
\* and every call of the remote client made during the call is made with that
\* conversationId.
C22_ConversationIdIsKept ==
    held.kind # "ConversationNotStarted"
    => /\ held.config.conversationId = ConversationId
       /\ callee # NoObj
          => /\ callee.config.conversationId = held.config.conversationId
             /\ callee.conversationId = held.config.conversationId
       /\ result.type = "ok"
          => /\ result.nextState.config.conversationId = held.config.conversationId
             /\ result.nextState.conversationId = held.config.conversationId
       /\ lastCall.name \in ClientCalls
          => lastCall.conversationId = held.config.conversationId
C22_Witness ==
    /\ pc = "done"
    /\ ncalls = 3
    /\ held.kind = "PrepareIteration"
    /\ callee.kind = "CodeGenIteration"
    /\ lastCall.name = "exportResultArchive"
    /\ lastCall.conversationId = ConversationId
    /\ result.type = "ok"
    /\ result.nextState.conversationId = ConversationId

\* a call of interact has failed after it had sent a remote call (a call of the
\* remote client or the upload transfer)
FailedAfterRemoteCall ==
    /\ pc = "done"
    /\ result.type = "error"
    /\ lastCall.name \in ClientCalls \cup {"uploadCode"}

\* C23 (as stated): when a remote call made inside the interact of any state
\* fails, the error that leaves interact is a recognized application error:
\* the error of the remote call itself when it is one, and a 'Server side
\* error' wrapping of it otherwise; no other error leaves interact.
C23_RemoteFailuresLeaveWrapped ==
    FailedAfterRemoteCall => result.error.toolkit

\* C24: no state retries on its own: within one interact call (the part run by
\* a delegate included) createUploadUrl, the upload transfer, generatePlan,
\* startCodeGeneration and exportResultArchive are each called at most once;
\* a status query is sent again only after an in-progress answer (InProgress or
\* predict-ready) and the sleep that follows it; after a failure status or an
\* unknown status no sleep and no call follows, and once the call has failed it
\* is over.
C24_NoRetryButPolling ==
    /\ calls.createUploadUrl <= 1
    /\ calls.uploadCode <= 1
    /\ calls.generatePlan <= 1
    /\ calls.startCodeGeneration <= 1
    /\ calls.exportResultArchive <= 1
    /\ calls.getCodeGeneration <= nInProgress + 1
    /\ calls.sleep <= nInProgress
    /\ (lastStatus # "none" /\ lastStatus \notin InProgressStatuses \cup {"Complete"})
       => /\ pc \in {"generateCodeDone", "done"}
          /\ calls.getCodeGeneration = nInProgress + 1
          /\ calls.sleep = nInProgress
          /\ calls.exportResultArchive = 0
    /\ (result.type = "error" \/ gcResult.type = "error")
       => pc \in {"generateCodeDone", "done"}
C24_Witness ==
    /\ pc = "done"
    /\ held.kind = "PrepareIteration"
    /\ calls.createUploadUrl = 1
    /\ calls.uploadCode = 1
    /\ calls.startCodeGeneration = 1
    /\ calls.getCodeGeneration = 3
    /\ nInProgress = 2
    /\ lastStatus = "predict-failed"
    /\ result.type = "error"

\* the interact of a RefinementState or RefinementIterationState has returned
\* after generatePlan returned a plan text
PlanCallReturned ==
    /\ pc = "done"
    /\ Runner.kind \in {"Refinement", "RefinementIteration"}
    /\ result.type = "ok"
    /\ planReturned.returned

\* C25 (as stated): when generatePlan returns a plan text that is undefined or
\* empty, RefinementState.interact and RefinementIterationState.interact put the
\* fallback message in its place: the approach stored in the state, the
\* approach of the next state and the interaction content are the fallback
\* message, and none of them is empty.
C25_EmptyPlanGetsFallback ==
    (PlanCallReturned /\ Falsy(planReturned.plan))
    => /\ Runner.approach = FallbackApproach
       /\ result.nextState.approach = FallbackApproach
       /\ result.content = FallbackApproach \o <<"\n">>
       /\ Runner.approach # <<>>

\* a text has no script element
ScriptFree(text) == \A i \in 1..Len(text) : IsNotScript(text[i])

\* C26: the approach of every state object and the content of every
\* interaction are free of script elements: after generatePlan has returned,
\* the approach stored in the running state, the approach of the next state and
\* the interaction content (before its newline) are the plan text (the fallback
\* message for an undefined plan) without its script elements, never the plan
\* text as it came.
C26_ApproachIsSanitized ==
    /\ \A o \in LiveObjects : ScriptFree(o.approach)
    /\ (result.type = "ok" /\ result.content # Undefined) => ScriptFree(result.content)
    /\ PlanCallReturned
       => /\ Runner.approach = WithoutScripts(planReturned.plan)
          /\ result.nextState.approach = WithoutScripts(planReturned.plan)
          /\ result.content = WithoutScripts(planReturned.plan) \o <<"\n">>
C26_Witness ==
    /\ PlanCallReturned
    /\ held.kind = "RefinementIteration"
    /\ planReturned.plan.text = <<"<script>alert(1)</script>", "<script>alert(1)</script>">>
    /\ held.approach = <<>>
    /\ result.content = <<"\n">>

\* the running call is one of a state that stages no files: a
\* ConversationNotStartedState, a PrepareRefinementState (with the
\* RefinementState it delegates to), a RefinementState, or a
\* RefinementIterationState called without the sentinel
NonStagingCall ==
    /\ pc # "idle"
    /\ \/ held.kind \in {"ConversationNotStarted", "PrepareRefinement", "Refinement"}
       \/ held.kind = "RefinementIteration" /\ ~HasSentinel(action.msg)

\* C27: the file system only grows or has entries overwritten: no step removes
\* an entry; it is changed only when exportResultArchive returns after a
\* Complete status and when MockCodeGenState.interact registers the mock files;
\* the calls of ConversationNotStarted, PrepareRefinement, Refinement and
\* RefinementIteration without the sentinel leave it as it was.
C27_FileSystemOnlyGrows ==
    [][/\ DOMAIN vfs \subseteq DOMAIN vfs'
       /\ vfs' # vfs
          => \/ pc = "exportResultArchive" /\ lastStatus = "Complete"
             \/ pc = "collectFiles" /\ Runner.kind = "MockCodeGen"
       /\ NonStagingCall' => vfs' = vfsAtCall']_vars
C27_Witness ==
    /\ pc = "done"
    /\ held.kind = "CodeGen"
    /\ <<"m1", "m.ts">> \in DOMAIN vfsAtCall
    /\ <<"m1", "m.ts">> \in DOMAIN vfs
    /\ Len(exported.files) = 2
    /\ vfs # vfsAtCall
    /\ result.type = "ok"

\* sendErrorMessage has run
ErrorSent == pc = "errorSent"
\* the answer that offers Retry and nothing else
RetryPrompt(tabID) ==
    [sent |-> "ChatMessage", message |-> Undefined, messageType |-> "system-prompt",
     followUps |-> <<RetryFollowUp>>, relatedSuggestions |-> Undefined,
     canBeVoted |-> FALSE, tabID |-> tabID]

\* C28: sendErrorMessage called with retries = 0 dispatches exactly one message,
\* an error message with the 'unable to provide a response' copy, and no
\* follow-up; called with any other retries value (a negative one too) it
\* dispatches exactly two messages: one error message, then one system-prompt
\* answer without text whose only follow-up is Retry.
C28_RetryOfferedUnlessExhausted ==
    ErrorSent
    => IF errorCall.retries = 0
       THEN /\ Len(dispatched) = 1
            /\ dispatched[1].sent = "ErrorMessage"
            /\ dispatched[1].title = UnableCopy
       ELSE /\ Len(dispatched) = 2
            /\ dispatched[1].sent = "ErrorMessage"
            /\ dispatched[1].title # UnableCopy
            /\ dispatched[2] = RetryPrompt(errorCall.tabID)
            /\ Len(dispatched[2].followUps) = 1
            /\ dispatched[2].followUps[1].pillText = "Retry"
C28_Witness ==
    /\ ErrorSent
    /\ errorCall.retries = -1
    /\ errorCall.phase = "Codegen"
    /\ Len(dispatched) = 2
    /\ dispatched[2].followUps = <<RetryFollowUp>>

\* C29: sendErrorMessage called with retries other than 0 picks the copy of the
\* error message by the phase alone: 'Restarting generation...' for Codegen,
\* 'Would you like to try again?' for Approach, Init and an undefined phase;
\* whatever the retries and the phase, the error message carries the raw error
\* message and the tabID it was called with, and so does the answer that
\* follows it carry the tabID.
C29_CopyChosenByPhase ==
    ErrorSent
    => /\ dispatched[1].message = errorCall.errorMessage
       /\ dispatched[1].tabID = errorCall.tabID
       /\ \A i \in 1..Len(dispatched) : dispatched[i].tabID = errorCall.tabID
       /\ errorCall.retries # 0
          => dispatched[1].title =
                IF errorCall.phase = "Codegen" THEN RestartingCopy ELSE TryAgainCopy
C29_Witness ==
    /\ ErrorSent
    /\ errorCall.retries = 2
    /\ errorCall.phase = Undefined
    /\ errorCall.tabID = "tab2"
    /\ dispatched[1] = ErrorMessage(TryAgainCopy, "Server side error", "tab2")

\* C30: generateCode calls exportResultArchive only after a status query has
\* returned Complete, and at most once; it has not called it when it ends with
\* the code-generation-failed, unknown-status or timeout error or with the empty
\* result of a cancellation; and the file system is changed only by the step in
\* which exportResultArchive returns its files.
C30_ExportOnlyAfterComplete ==
    [][/\ calls'.exportResultArchive <= 1
       /\ calls'.exportResultArchive = 1 => lastStatus' = "Complete"
       /\ calls'.exportResultArchive > calls.exportResultArchive
          => pc = "getCodeGeneration" /\ lastStatus' = "Complete"
       /\ (GenerateCodeOver' /\ lastStatus' # "Complete")
          => calls'.exportResultArchive = 0 /\ ~exported'.defined /\ vfs' = vfsAtCall'
       /\ (GenerateCodeOver'
              /\ gcResult'.error.name \in {"CodeGenerationFailed", "UnknownStatus", "Timeout"})
          => calls'.exportResultArchive = 0
       /\ vfs' # vfs
          => /\ pc = "exportResultArchive"
             /\ calls.exportResultArchive = 1
             /\ exported'.defined
             /\ gcResult'.type = "ok"]_vars
C30_Witness ==
    /\ GenerateCodeOver
    /\ nInProgress = 1
    /\ calls.getCodeGeneration = 2
    /\ calls.exportResultArchive = 1
    /\ cancelAt.pc = "exportResultArchive"
    /\ Len(exported.files) = 2
    /\ vfs # vfsAtCall

\* the second generation round of a conversation has registered its files under
\* another uploadId than the first: the Session holds the PrepareIterationState
\* the first round returned, so every entry the file system had when the call
\* started was registered in the first round, under held.config.uploadId
SecondRoundOnOtherUploadId ==
    /\ ncalls = 3
    /\ held.kind = "PrepareIteration"
    /\ callee.kind = "CodeGenIteration"
    /\ pc \in {"generateCodeDone", "done"}
    /\ exported.defined
    /\ callee.uploadId # held.config.uploadId

\* C31 (as stated): a registration made in a round with one uploadId never
\* overwrites an entry registered in a round with another uploadId: after the
\* second round every entry of the first round has the content it had.
C31_RoundsDoNotOverwriteEachOther ==
    SecondRoundOnOtherUploadId
    => \A uri \in DOMAIN vfsAtCall : vfs[uri] = vfsAtCall[uri]

\* C32 (as stated): once the token of the state the Session holds is signaled,
\* the polling loop running inside the call made on that state sends no further
\* status query, be the loop run by the held CodeGenState itself or by the
\* CodeGenIterationState a held PrepareIterationState delegates to.
C32_HeldTokenStopsPolling ==
    [][held.isCancellationRequested
       => calls'.getCodeGeneration <= calls.getCodeGeneration]_vars

\* C33 (as stated): the approach is kept through the Codegen phase: the
\* PrepareIterationState a call returns, be the call made on a CodeGenState or
\* on a PrepareIterationState (through its CodeGenIterationState), carries the
\* approach of the state the call was made on.
C33_ApproachKeptThroughCodegen ==
    (pc = "done" /\ result.type = "ok" /\ result.nextState.kind = "PrepareIteration")
    => result.nextState.approach = held.approach

\* the file paths the running call has registered: those of the exported
\* archive, or those MockCodeGenState.interact has staged
RegisteredPaths ==
    IF exported.defined THEN FilePathsOf(exported.files)
    ELSE IF Runner.kind = "MockCodeGen" THEN Runner.filePaths
    ELSE <<>>
\* a call has returned after registering at least one file
ReturnedWithFiles ==
    /\ pc = "done"
    /\ result.type = "ok"
    /\ RegisteredPaths # <<>>

\* C34 (as stated): after a successful call that registers files, made on a
\* CodeGenState, a PrepareIterationState or a RefinementIterationState given the
\* sentinel, the uploadId the files were registered under (the uploadId of the
\* object that called createFilePaths) is the uploadId of the next state.
C34_RegisteredUnderReturnedUploadId ==
    ReturnedWithFiles
    => /\ Runner.uploadId = result.nextState.uploadId
       /\ \A i \in 1..Len(RegisteredPaths) :
            PathJoin(result.nextState.uploadId, RegisteredPaths[i]) \in DOMAIN vfs

\* C34 (amended): after such a call every registered file is at
\* path.join(uploadId, filePath) for the uploadId of the object that called
\* createFilePaths; for a CodeGenState and for the CodeGenIterationState of a
\* PrepareIterationState that is the uploadId the next state carries, in its
\* field and in its config; a MockCodeGenState registers under the uploadId
\* randomUUID() gave it, and the RefinementState it returns carries the
\* uploadId of the RefinementIterationState that was called, another one.
C34_RegisteredUnderRunnerUploadId ==
    ReturnedWithFiles
    => /\ \A i \in 1..Len(RegisteredPaths) :
            PathJoin(Runner.uploadId, RegisteredPaths[i]) \in DOMAIN vfs
       /\ Runner.kind \in {"CodeGen", "CodeGenIteration"}
          => /\ result.nextState.kind = "PrepareIteration"
             /\ result.nextState.uploadId = Runner.uploadId
             /\ result.nextState.config.uploadId = Runner.uploadId
       /\ Runner.kind = "MockCodeGen"
          => /\ held.kind = "RefinementIteration"
             /\ \E i \in 1..Len(UuidPool) : Runner.uploadId = UuidPool[i]
             /\ result.nextState.kind = "Refinement"
             /\ result.nextState.uploadId = held.uploadId
             /\ result.nextState.uploadId # Runner.uploadId
       /\ Runner.kind \in {"CodeGen", "CodeGenIteration", "MockCodeGen"}
C34_Witness ==
    /\ ReturnedWithFiles
    /\ callee.kind = "MockCodeGen"
    /\ callee.uploadId = "m1"
    /\ callee.filePaths = <<<<"m.ts">>, <<"mock-data", "n.ts">>>>
    /\ <<"m1", "mock-data", "n.ts">> \in DOMAIN vfs
    /\ result.nextState.uploadId \in ServerUploadIds

\* C35 (as stated): when an interact call fails, the state object it was made
\* on has the approach, the uploadId and the file list it had when the call
\* started, whatever its class and wherever the call failed; a
\* PrepareIterationState whose upload transfer fails has the uploadId it had.
C35_FailedCallLeavesStateAsItWas ==
    (pc = "done" /\ result.type = "error")
    => /\ held.approach = heldAtCall.approach
       /\ held.uploadId = heldAtCall.uploadId
       /\ held.filePaths = heldAtCall.filePaths

\* the token of the running state was signaled before or while generateCode ran
CancelledInLoop == cancelAt # NoCancel /\ cancelAt.pc # "done"
\* what interact returns for a generation without files
NoFilesResult ==
    Returned(PrepareIterationState(Runner.config, Runner.approach, <<>>), Undefined)

\* C36: when generateCode ends because the token was signaled (every status
\* query before was answered with an in-progress status), CodeGenState.interact
\* and CodeGenIterationState.interact do not fail: they return a
\* PrepareIterationState with an empty file list and an empty interaction,
\* which is also what they return after a Complete whose archive has no files.
C36_CancellationReturnsEmptySuccess ==
    /\ (pc = "done" /\ CancelledInLoop /\ OnlyInProgressAnswers)
       => /\ gcResult = EmptyResult
          /\ result = NoFilesResult
          /\ Runner.filePaths = <<>>
          /\ vfs = vfsAtCall
    /\ (pc = "done" /\ gcResult = EmptyResult)
       => result = NoFilesResult
C36_Witness ==
    /\ pc = "done"
    /\ held.kind = "CodeGenIteration"
    /\ cancelAt = [query |-> 2, pc |-> "sleep"]
    /\ calls.getCodeGeneration = 2
    /\ result.type = "ok"
    /\ result.nextState.kind = "PrepareIteration"
    /\ result.nextState.filePaths = <<>>

\* C37: every state object has a token source of its own, made unsignaled by
\* its constructor: the state a call delegates to and the state a call returns
\* are never signaled, signaling the held state's token changes no other state
\* object, and the state the Session installs after a call starts unsignaled,
\* whether or not the state that returned it had been cancelled.
C37_TokensAreIndependent ==
    [][/\ (callee'.kind # "none" => ~callee'.isCancellationRequested)
       /\ (result'.type = "ok" => ~result'.nextState.isCancellationRequested)
       /\ (~held.isCancellationRequested /\ held'.isCancellationRequested
           => callee' = callee /\ result' = result)
       /\ (pc = "done" /\ pc' = "idle" /\ result.type = "ok"
           => /\ held' = result.nextState
              /\ ~held'.isCancellationRequested)]_vars
\* a CodeGenState cancelled during its polling has returned its next state
C37_Witness ==
    /\ pc = "done"
    /\ held.kind = "CodeGen"
    /\ held.isCancellationRequested
    /\ cancelAt.pc = "sleep"
    /\ result.type = "ok"
    /\ result.nextState.kind = "PrepareIteration"
    /\ ~result.nextState.isCancellationRequested

====
